---- MODULE Spec2Model ----
(***************************************************************************)
(* A model of the map editor of main_all.py: the Waypoint class and its    *)
(* class-level counter, the ImageViewer document operations, the           *)
(* DrawableLabel pointer handlers, layer compositing in update_display,    *)
(* and the pixel <-> metric conversions, which the program computes in     *)
(* IEEE-754 binary64 (Python float).                                       *)
(***************************************************************************)
EXTENDS Integers, Sequences, FiniteSets, TLC

(***************************************************************************)
(* Natural numbers of arbitrary size, as little-endian sequences of limbs  *)
(* in base 2^15 with no leading zero limb (zero is << >>).  They carry the *)
(* 53-bit significands of Python floats and the intermediate products and  *)
(* quotients, which do not fit the model checker's 32-bit integers.        *)
(***************************************************************************)
RECURSIVE Pow2(_)
Pow2(n) == IF n = 0 THEN 1 ELSE 2 * Pow2(n - 1)

LimbBase == Pow2(15)

RECURSIVE BNorm(_)
BNorm(a) ==
    IF a = << >> THEN << >>
    ELSE IF a[Len(a)] = 0 THEN BNorm(SubSeq(a, 1, Len(a) - 1))
    ELSE a

RECURSIVE BFromNat(_)
BFromNat(n) ==
    IF n = 0 THEN << >>
    ELSE <<n % LimbBase>> \o BFromNat(n \div LimbBase)

RECURSIVE BToNat(_)
BToNat(a) ==
    IF a = << >> THEN 0
    ELSE a[1] + LimbBase * BToNat(Tail(a))

Limb(a, i) == IF i <= Len(a) THEN a[i] ELSE 0

BMax(m, n) == IF m >= n THEN m ELSE n

RECURSIVE BAddFrom(_, _, _, _)
BAddFrom(a, b, i, carry) ==
    IF i > BMax(Len(a), Len(b))
    THEN IF carry = 0 THEN << >> ELSE <<carry>>
    ELSE LET s == Limb(a, i) + Limb(b, i) + carry
         IN  <<s % LimbBase>> \o BAddFrom(a, b, i + 1, s \div LimbBase)

BAdd(a, b) == BNorm(BAddFrom(a, b, 1, 0))

\* a - b for a >= b
RECURSIVE BSubFrom(_, _, _, _)
BSubFrom(a, b, i, borrow) ==
    IF i > Len(a) THEN << >>
    ELSE LET d == Limb(a, i) - Limb(b, i) - borrow
         IN  IF d < 0
             THEN <<d + LimbBase>> \o BSubFrom(a, b, i + 1, 1)
             ELSE <<d>> \o BSubFrom(a, b, i + 1, 0)

BSub(a, b) == BNorm(BSubFrom(a, b, 1, 0))

\* -1, 0 or 1 as a < b, a = b, a > b (both normalised)
RECURSIVE BCmpFrom(_, _, _)
BCmpFrom(a, b, i) ==
    IF i = 0 THEN 0
    ELSE IF a[i] < b[i] THEN -1
    ELSE IF a[i] > b[i] THEN 1
    ELSE BCmpFrom(a, b, i - 1)

BCmp(a, b) ==
    IF Len(a) < Len(b) THEN -1
    ELSE IF Len(a) > Len(b) THEN 1
    ELSE BCmpFrom(a, b, Len(a))

\* a * k for one limb k
RECURSIVE BMulLimbFrom(_, _, _, _)
BMulLimbFrom(a, k, i, carry) ==
    IF i > Len(a)
    THEN IF carry = 0 THEN << >> ELSE <<carry>>
    ELSE LET p == a[i] * k + carry
         IN  <<p % LimbBase>> \o BMulLimbFrom(a, k, i + 1, p \div LimbBase)

BMulLimb(a, k) == BNorm(BMulLimbFrom(a, k, 1, 0))

BShiftLimbs(a, n) == IF a = << >> THEN << >> ELSE [i \in 1..n |-> 0] \o a

RECURSIVE BMulFrom(_, _, _)
BMulFrom(a, b, j) ==
    IF j > Len(b) THEN << >>
    ELSE BAdd(BShiftLimbs(BMulLimb(a, b[j]), j - 1), BMulFrom(a, b, j + 1))

BMul(a, b) == BMulFrom(a, b, 1)

\* a * 2^n
BShl(a, n) == BShiftLimbs(BMulLimb(a, Pow2(n % 15)), n \div 15)

\* floor(a / 2) within one limb sequence
RECURSIVE BHalfFrom(_, _)
BHalfFrom(a, i) ==
    IF i > Len(a) THEN << >>
    ELSE <<(a[i] \div 2) + (Limb(a, i + 1) % 2) * (LimbBase \div 2)>>
         \o BHalfFrom(a, i + 1)

BDropLimbs(a, n) == IF n >= Len(a) THEN << >> ELSE SubSeq(a, n + 1, Len(a))

RECURSIVE BShrBits(_, _)
BShrBits(a, n) == IF n = 0 THEN a ELSE BShrBits(BNorm(BHalfFrom(a, 1)), n - 1)

\* floor(a / 2^n)
BShr(a, n) == BShrBits(BDropLimbs(a, n \div 15), n % 15)

RECURSIVE NatBits(_)
NatBits(n) == IF n = 0 THEN 0 ELSE 1 + NatBits(n \div 2)

\* the number of bits of a (0 for zero)
BitLen(a) == IF a = << >> THEN 0 ELSE 15 * (Len(a) - 1) + NatBits(a[Len(a)])

BIsOdd(a) == a # << >> /\ a[1] % 2 = 1

\* the largest g in lo..hi with d * g <= R (d * lo <= R is given)
RECURSIVE BDivDigit(_, _, _, _)
BDivDigit(R, d, lo, hi) ==
    IF lo = hi THEN lo
    ELSE LET mid == (lo + hi + 1) \div 2
         IN  IF BCmp(BMulLimb(d, mid), R) <= 0
             THEN BDivDigit(R, d, mid, hi)
             ELSE BDivDigit(R, d, lo, mid - 1)

\* <<quotient, remainder>> of (r * LimbBase^n) / d for r < d, one limb at a time
RECURSIVE BDivLimbs(_, _, _)
BDivPlace(g, n, rest) == <<BAdd(rest[1], BNorm(BShiftLimbs(<<g>>, n - 1))), rest[2]>>
BDivStep(R, d, n, g) == BDivPlace(g, n, BDivLimbs(BSub(R, BMulLimb(d, g)), d, n - 1))
BDivShifted(R, d, n) == BDivStep(R, d, n, BDivDigit(R, d, 0, LimbBase - 1))
BDivLimbs(r, d, n) ==
    IF n = 0 THEN <<<< >>, r>>
    ELSE BDivShifted(BShiftLimbs(r, 1), d, n)

(***************************************************************************)
(* Python floats (IEEE-754 binary64, round to nearest, ties to even).  A   *)
(* finite value is s * m * 2^e with m a 53-bit significand (<< >> for      *)
(* zero).  Exponent overflow, underflow and subnormals are outside the     *)
(* magnitudes the editor's coordinates reach and are not modelled; the     *)
(* sign of zero is not kept (nothing in the program observes it).          *)
(***************************************************************************)
FZero == [k |-> "fin", s |-> 1, m |-> << >>, e |-> 0]
FNan == [k |-> "nan", s |-> 1, m |-> << >>, e |-> 0]
FInf(sign) == [k |-> "inf", s |-> sign, m |-> << >>, e |-> 0]

FIsZero(a) == a.k = "fin" /\ a.m = << >>
FIsFinite(a) == a.k = "fin"

FPack(sign, m, e) == [k |-> "fin", s |-> sign, m |-> m, e |-> e]

\* s * (q or q + 1) * 2^E: q is the 53-bit quotient, c compares the dropped part
\* with half a unit of q's last place
FRoundCarry(sign, q2, E) ==
    IF BitLen(q2) = 54 THEN FPack(sign, BShr(q2, 1), E + 1) ELSE FPack(sign, q2, E)
FRoundTie(sign, q, E, c, sticky) ==
    FRoundCarry(sign,
                IF c > 0 \/ (c = 0 /\ (sticky \/ BIsOdd(q))) THEN BAdd(q, <<1>>) ELSE q,
                E)
FRoundCut(sign, M, E, sticky, sh, q) ==
    FRoundTie(sign, q, E + sh, BCmp(BSub(M, BShl(q, sh)), BShl(<<1>>, sh - 1)), sticky)
FRoundLen(sign, M, E, sticky, L) ==
    IF L = 0 THEN FZero
    ELSE IF L <= 53 THEN FPack(sign, BShl(M, 53 - L), E - (53 - L))
    ELSE FRoundCut(sign, M, E, sticky, L - 53, BShr(M, L - 53))

\* s * (M + sticky) * 2^E rounded to 53 bits; sticky says a nonzero part below M's
\* last bit was dropped
FRound(sign, M, E, sticky) == FRoundLen(sign, M, E, sticky, BitLen(M))

\* float(n) for a Python int n
FFromInt(n) == FRound(IF n < 0 THEN -1 ELSE 1, BFromNat(IF n < 0 THEN -n ELSE n), 0, FALSE)

FNeg(a) == IF a.k = "nan" \/ FIsZero(a) THEN a ELSE [a EXCEPT !.s = -a.s]

FMul(a, b) ==
    IF a.k = "nan" \/ b.k = "nan" THEN FNan
    ELSE IF a.k = "inf" \/ b.k = "inf"
    THEN IF FIsZero(a) \/ FIsZero(b) THEN FNan ELSE FInf(a.s * b.s)
    ELSE IF FIsZero(a) \/ FIsZero(b) THEN FZero
    ELSE FRound(a.s * b.s, BMul(a.m, b.m), a.e + b.e, FALSE)

\* a / b raises ZeroDivisionError
FDivRaises(a, b) == FIsZero(b)

\* the significands' quotient to 60 fractional bits, from <<quotient, remainder>>
\* of the part of a.m below b.m
FDivRound(a, b, ge, qr) ==
    FRound(a.s * b.s, IF ge THEN BAdd(qr[1], BShl(<<1>>, 60)) ELSE qr[1],
           a.e - b.e - 60, qr[2] # << >>)
FDivLong(a, b, ge) ==
    FDivRound(a, b, ge, BDivLimbs(IF ge THEN BSub(a.m, b.m) ELSE a.m, b.m, 4))

\* a / b when it does not raise
FDiv(a, b) ==
    IF a.k = "nan" \/ b.k = "nan" THEN FNan
    ELSE IF a.k = "inf"
    THEN IF b.k = "inf" THEN FNan ELSE FInf(a.s * b.s)
    ELSE IF b.k = "inf" \/ FIsZero(a) THEN FZero
    ELSE FDivLong(a, b, BCmp(a.m, b.m) >= 0)

\* the sum of sa * A * 2^e and sb * B * 2^e, c comparing A with B
FAddSigned(sa, A, sb, B, e, c) ==
    IF sa # sb /\ c = 0 THEN FZero
    ELSE FRound(IF sa = sb \/ c > 0 THEN sa ELSE sb,
                IF sa = sb THEN BAdd(A, B) ELSE IF c > 0 THEN BSub(A, B) ELSE BSub(B, A),
                e, FALSE)
FAddAligned(sa, A, sb, B, e) == FAddSigned(sa, A, sb, B, e, BCmp(A, B))
FAddAt(a, b, e) == FAddAligned(a.s, BShl(a.m, a.e - e), b.s, BShl(b.m, b.e - e), e)

FAdd(a, b) ==
    IF a.k = "nan" \/ b.k = "nan" THEN FNan
    ELSE IF a.k = "inf"
    THEN IF b.k = "inf" /\ b.s # a.s THEN FNan ELSE a
    ELSE IF b.k = "inf" THEN b
    ELSE IF FIsZero(a) THEN b
    ELSE IF FIsZero(b) THEN a
    ELSE FAddAt(a, b, IF a.e <= b.e THEN a.e ELSE b.e)

FSub(a, b) == FAdd(a, FNeg(b))

\* int(a) raises (ValueError for nan, OverflowError for an infinity)
FTruncRaises(a) == a.k # "fin"

\* int(a): truncation toward zero
FTrunc(a) ==
    IF FIsZero(a) THEN 0
    ELSE a.s * BToNat(IF a.e >= 0 THEN BShl(a.m, a.e) ELSE BShr(a.m, -a.e))

\* a > 0
FIsPositive(a) == a.k # "nan" /\ ~FIsZero(a) /\ a.s = 1

(***************************************************************************)
(* Bounds of the model and the inputs the operations draw from.            *)
(***************************************************************************)
\* the collection's operations are followed up to this many waypoints
MaxWaypoints == 3
\* the pointer's and the document's operations are followed up to this many
MaxPlaced == 2
\* the longest `waypoints` list of an imported file
MaxImport == 2
\* pixel coordinates and their differences stay within -MaxPixel..MaxPixel
MaxPixel == 128
\* maximum() of the waypoint list's vertical scroll bar, whose minimum() is 0
MaxScroll == 40

\* Pointer positions, in display pixels.  The zoom is left at its initial
\* scale_factor of 1.0, where the label has the pixmap's size and
\* int(pos * scale_x) is pos itself.  QPoint(0, 0) is not among them.
Points == {<<2, 3>>, <<40, 3>>}

\* heights of the maps that load_image is given
MapHeights == {100, 80}

\* self.resolution = 0.05
DefaultResolution == FDiv(FFromInt(1), FFromInt(20))

\* a YAML scalar that is not a number
NonNumeric == [k |-> "str", s |-> 1, m |-> << >>, e |-> 0]

\* resolution: 0.1
CoarseResolution == FDiv(FFromInt(1), FFromInt(10))

\* the values self.resolution takes
Resolutions == {DefaultResolution, CoarseResolution, FZero}

\* n * res for a Python int n and a resolution res, tabulated once
Products == [res \in Resolutions |-> [n \in (-MaxPixel)..MaxPixel |-> FMul(FFromInt(n), res)]]
Times(n, res) == Products[res][n]

(***************************************************************************)
(* Angles.  The program keeps radians; the model keeps the same angle in   *)
(* whole degrees, which is exact for the directions the pointer positions  *)
(* above can form.                                                         *)
(***************************************************************************)
AngleDeg(d) == [k |-> "fin", deg |-> d]
AngleNan == [k |-> "nan", deg |-> 0]

\* np.arctan2(dy, dx) for dy = 0 or dx = 0 or |dx| = |dy|
Atan2(dy, dx) ==
    IF dy = 0 THEN (IF dx >= 0 THEN AngleDeg(0) ELSE AngleDeg(180))
    ELSE IF dy > 0
    THEN (IF dx = 0 THEN AngleDeg(90) ELSE IF dx > 0 THEN AngleDeg(45) ELSE AngleDeg(135))
    ELSE (IF dx = 0 THEN AngleDeg(-90) ELSE IF dx > 0 THEN AngleDeg(-45) ELSE AngleDeg(-135))

(***************************************************************************)
(* class Waypoint.  Objects live in `obj`, a heap indexed by identity, so  *)
(* that temp_waypoint and editing_waypoint alias the members of the list.  *)
(***************************************************************************)
Ids == 1..(MaxWaypoints + MaxImport + 2)

\* the numbers a waypoint can get, which are the keys of the list panel
Numbers == 1..(MaxWaypoints + MaxImport)
Null == [null |-> TRUE]

\* update_display_name raises: int(nan) is a ValueError, int(inf) an OverflowError
update_display_name_raises(wp) == wp.angle.k # "fin"

\* the object __init__ builds, given the number it took from the counter
WaypointInit(n, px, py, ang) ==
    [number |-> n, pixel_x |-> px, pixel_y |-> py, x |-> FZero, y |-> FZero,
     angle |-> ang, has_origin |-> FALSE, origin_x |-> 0, origin_y |-> 0,
     resolution |-> DefaultResolution]

set_angle(wp, ang) == [wp EXCEPT !.angle = ang]

update_metric_coordinates(wp, ox, oy, res) ==
    [wp EXCEPT !.has_origin = TRUE, !.origin_x = ox, !.origin_y = oy,
               !.resolution = res,
               !.x = Times(wp.pixel_x - ox, res),
               !.y = Times(oy - wp.pixel_y, res)]

renumber(wp, n) == [wp EXCEPT !.number = n]

set_position(wp, px, py) ==
    LET moved == [wp EXCEPT !.pixel_x = px, !.pixel_y = py]
    IN  IF wp.has_origin
        THEN update_metric_coordinates(moved, wp.origin_x, wp.origin_y, wp.resolution)
        ELSE moved

(***************************************************************************)
(* The state: ImageViewer (the document), its DrawableLabel (pgm_display)  *)
(* and its CustomScrollArea (scroll_area).  None is << >> for a point and  *)
(* 0 for an object reference or a pixmap.                                  *)
(***************************************************************************)
VARIABLES
    waypoints,            \* ImageViewer.waypoints: the identities, in list order
    obj,                  \* the Waypoint objects, by identity
    counter,              \* Waypoint.counter, shared by all instances
    pgm,                  \* height of pgm_layer.pixmap, 0 when no map is loaded
    origin_point,         \* ImageViewer.origin_point
    resolution,           \* ImageViewer.resolution
    drawing_mode,         \* ImageViewer.drawing_mode
    drawing_enabled,      \* DrawableLabel.drawing_enabled
    drawing_mode_enabled, \* CustomScrollArea.drawing_mode_enabled
    is_setting_angle,     \* DrawableLabel.is_setting_angle
    click_pos,            \* DrawableLabel.click_pos
    temp_waypoint,        \* DrawableLabel.temp_waypoint
    last_pos,             \* DrawableLabel.last_pos
    edit_mode,            \* DrawableLabel.edit_mode
    editing_waypoint,     \* DrawableLabel.editing_waypoint
    is_editing_angle,     \* DrawableLabel.is_editing_angle
    editing_start_pos,    \* DrawableLabel.editing_start_pos
    layers,               \* the five Layer objects; ink is their content at one
                          \* pixel, which no stroke or marker covers unless
                          \* set_content says so
    show_grid,            \* ImageViewer.show_grid
    display,              \* that pixel of the pixmap update_display last composed
    trip,                 \* a point on its way from pixels to metres and back
    listed,               \* the model follows the list panel: where it is FALSE
                          \* the panel is left out of the state, which takes
                          \* nothing from the document, since all the panel gives
                          \* back is the number the user picks on it
    waypoint_widgets,     \* RightPanel.waypoint_widgets: the waypoint held by the
                          \* list item under each key, 0 where there is no item
    scroll_timer,         \* the QTimers started by start_auto_scroll and running
    scroll_region,        \* RightPanel.scroll_region
    scroll_value,         \* value() of the waypoint list's vertical scroll bar
    drag,                 \* the number carried by the QDrag in exec(), 0: no drag
    grab,                 \* the key of the list item that took a press of another
                          \* button than the left and has the mouse, 0: none
    path,                 \* the segments drawn on path_layer.pixmap
    path_checked,         \* generate_path_button.isChecked()
    lastOp                \* history: the operation that produced this state

collVars == <<waypoints, obj, counter>>
docVars == <<pgm, origin_point, resolution>>
modeVars == <<drawing_mode, drawing_enabled, drawing_mode_enabled>>
placeVars == <<is_setting_angle, click_pos, temp_waypoint, last_pos>>
editVars == <<edit_mode, editing_waypoint, is_editing_angle, editing_start_pos>>
viewVars == <<layers, show_grid, display>>
listVars == <<listed, waypoint_widgets>>
scrollVars == <<scroll_timer, scroll_region, scroll_value, drag, grab>>
pathVars == <<path, path_checked>>
panelVars == <<listVars, scrollVars, pathVars>>
vars == <<collVars, docVars, modeVars, placeVars, editVars, viewVars, trip, panelVars, lastOp>>

\* a: the handler's mode argument or its outcome; b: the mode it started from
Op(name, a, b) == [op |-> name, a |-> a, b |-> b]

Range(seq) == {seq[i] : i \in 1..Len(seq)}

\* the waypoint at index i of the list (indices from 1)
WP(i) == obj[waypoints[i]]

\* the identity a newly constructed object gets: any unused one
Alloc(objs) == CHOOSE i \in Ids : objs[i] = Null /\ \A j \in Ids : j < i => objs[j] # Null

\* objects that neither the list, temp_waypoint nor editing_waypoint refers to
\* any more are dropped
Collect(objs, wps, temp, editing) ==
    [i \in Ids |-> IF i \in Range(wps) \cup {temp, editing} THEN objs[i] ELSE Null]

\* the renumbering loop of remove_waypoint and reorder_waypoints:
\* Waypoint.counter += 1; wp.renumber(Waypoint.counter), from a reset counter
RenumberAll(objs, wps) ==
    [i \in Ids |->
        IF \E j \in 1..Len(wps) : wps[j] = i
        THEN renumber(objs[i], CHOOSE j \in 1..Len(wps) : wps[j] = i)
        ELSE objs[i]]

(***************************************************************************)
(* RightPanel's waypoint list, the slots of ImageViewer.waypoint_added,    *)
(* waypoint_edited and waypoint_removed.  An item keeps the waypoint it    *)
(* was made for and stays under the number that waypoint had then.         *)
(***************************************************************************)
NoWidgets == [n \in Numbers |-> 0]

\* what an item holds once its waypoint is out of the document: the object stays
\* with the item, and nothing else can reach it
Gone == -1

\* the items, given what the document still refers to
Held(widgets, wps, temp, editing) ==
    [n \in Numbers |->
        IF widgets[n] \in Range(wps) \cup {0, temp, editing} THEN widgets[n] ELSE Gone]

\* add_waypoint_to_list(waypoint): an item under the number is only refreshed
add_waypoint_to_list(widgets, objs, id) ==
    IF ~listed \/ widgets[objs[id].number] # 0 THEN widgets
    ELSE [widgets EXCEPT ![objs[id].number] = id]

\* remove_waypoint_from_list(number); -1 is passed for all
remove_waypoint_from_list(widgets, number) ==
    IF ~listed THEN widgets
    ELSE IF number = -1 THEN NoWidgets
    ELSE IF number \in Numbers /\ widgets[number] # 0 THEN NoWidgets
    ELSE widgets

\* waypoint_added.emit(wp) for the waypoints wps[i], wps[i + 1], ... in turn
RECURSIVE AddedToList(_, _, _, _)
AddedToList(widgets, objs, wps, i) ==
    IF i > Len(wps) THEN widgets
    ELSE AddedToList(add_waypoint_to_list(widgets, objs, wps[i]), objs, wps, i + 1)

\* Layer.__init__: visible, opacity 1.0 (kept in percent), no pixmap.  ink says
\* that the layer's content covers the pixel the model follows.
LayerNames == {"pgm", "drawing", "path", "waypoint", "origin"}
LayerInit == [visible |-> TRUE, opacity |-> 100, ink |-> FALSE]

\* no point is being converted
NoTrip == [stage |-> "none", p |-> << >>, o |-> << >>, r |-> FZero,
           x |-> FZero, y |-> FZero, back |-> << >>]

Constructed ==
    /\ waypoints = << >>
    /\ obj = [i \in Ids |-> Null]
    /\ counter = 0
    /\ pgm = 0
    /\ origin_point = << >>
    /\ resolution = DefaultResolution
    /\ drawing_mode = "NONE"
    /\ drawing_enabled = FALSE
    /\ drawing_mode_enabled = FALSE
    /\ is_setting_angle = FALSE
    /\ click_pos = << >>
    /\ temp_waypoint = 0
    /\ last_pos = << >>
    /\ edit_mode = FALSE
    /\ editing_waypoint = 0
    /\ is_editing_angle = FALSE
    /\ editing_start_pos = << >>
    /\ layers = [l \in LayerNames |-> LayerInit]
    /\ show_grid = FALSE
    /\ display = << >>
    /\ waypoint_widgets = NoWidgets
    /\ scroll_timer = 0
    /\ scroll_region = "unset"
    /\ scroll_value = 0
    /\ drag = 0
    /\ grab = 0
    /\ path = << >>
    /\ path_checked = FALSE
    /\ lastOp = Op("init", "", "")

Init == Constructed /\ trip = NoTrip /\ listed = FALSE

\* the same with the list panel followed
InitListed == Constructed /\ trip = NoTrip /\ listed = TRUE

(***************************************************************************)
(* ImageViewer.set_drawing_mode                                            *)
(***************************************************************************)
\* a selection that never toggles the current tool off
select_drawing_mode(mode) ==
    /\ drawing_mode' = mode
    /\ drawing_enabled' = (mode # "NONE")
    /\ drawing_mode_enabled' = (mode # "NONE")
    /\ lastOp' = Op("set_drawing_mode", mode, drawing_mode)
    /\ UNCHANGED <<collVars, docVars, placeVars, editVars, viewVars, trip, panelVars>>

set_drawing_mode(mode) ==
    /\ IF drawing_mode = mode
       THEN /\ drawing_mode' = "NONE"
            /\ drawing_enabled' = FALSE
            /\ drawing_mode_enabled' = FALSE
       ELSE /\ drawing_mode' = mode
            /\ drawing_enabled' = (mode # "NONE")
            /\ drawing_mode_enabled' = (mode # "NONE")
    /\ lastOp' = Op("set_drawing_mode", mode, drawing_mode)
    /\ UNCHANGED <<collVars, docVars, placeVars, editVars, viewVars, trip, panelVars>>

(***************************************************************************)
(* ImageViewer.update_display at one pixel of the map.  The composed pixel *)
(* is the list of what shows there, bottom first: an opaque paint replaces *)
(* what is below it, a translucent one is blended over it, and a paint of  *)
(* opacity 0 or of a transparent pixel leaves it as it is.                 *)
(***************************************************************************)
Paint(src, opacity) == [src |-> src, opacity |-> opacity]

\* painter.setOpacity(opacity) and one paint that covers the pixel if covers
Painted(pixel, src, opacity, covers) ==
    IF ~covers \/ opacity = 0 THEN pixel
    ELSE IF opacity = 100 THEN <<Paint(src, 100)>>
    ELSE Append(pixel, Paint(src, opacity))

\* painter.drawPixmap of a layer, under the layer's if
PaintedLayer(pixel, ls, name) ==
    Painted(pixel, name, ls[name].opacity, ls[name].visible /\ ls[name].ink)

GridOpacity == 30

\* a composition that paints the origin marker below the waypoint markers
ComposedOriginFirst(ls, grid) ==
    PaintedLayer(
      PaintedLayer(
        PaintedLayer(
          PaintedLayer(
            Painted(PaintedLayer(<<Paint("white", 100)>>, ls, "pgm"),
                    "grid", GridOpacity, grid),
            ls, "drawing"),
          ls, "path"),
        ls, "origin"),
      ls, "waypoint")

\* result.fill(white), then steps 1 to 6 of update_display
Composed(ls, grid) ==
    PaintedLayer(
      PaintedLayer(
        PaintedLayer(
          PaintedLayer(
            Painted(PaintedLayer(<<Paint("white", 100)>>, ls, "pgm"),
                    "grid", GridOpacity, grid),
            ls, "drawing"),
          ls, "path"),
        ls, "waypoint"),
      ls, "origin")

\* update_display with the layers ls and the grid switch grid
update_display(ls, grid) ==
    display' = IF ls["pgm"].ink THEN Composed(ls, grid) ELSE display

(***************************************************************************)
(* ImageViewer.load_image: the map covers every pixel, the drawing layer   *)
(* gets a new transparent pixmap.                                          *)
(***************************************************************************)
\* the body of load_image
set_pixmaps(height) ==
    /\ pgm' = height
    /\ layers' = [layers EXCEPT !["pgm"].ink = TRUE, !["drawing"].ink = FALSE]
    /\ update_display(layers', show_grid)

load_image(height) ==
    /\ set_pixmaps(height)
    /\ lastOp' = Op("load_image", "", "")
    /\ UNCHANGED <<collVars, origin_point, resolution, modeVars, placeVars, editVars,
                   show_grid, trip, panelVars>>

(***************************************************************************)
(* ImageViewer.add_waypoint, the slot of DrawableLabel.waypoint_clicked    *)
(***************************************************************************)
add_waypoint(pos) ==
    IF pgm = 0
    THEN UNCHANGED <<collVars, temp_waypoint, waypoint_widgets>>
    ELSE LET id == Alloc(obj)
             made == WaypointInit(counter + 1, pos[1], pos[2], AngleDeg(0))
             wp == IF origin_point # << >>
                   THEN update_metric_coordinates(made, origin_point[1],
                                                  origin_point[2], resolution)
                   ELSE made
         IN  /\ counter' = counter + 1
             /\ waypoints' = Append(waypoints, id)
             /\ temp_waypoint' = id
             /\ waypoint_widgets' =
                    Held(add_waypoint_to_list(waypoint_widgets, [obj EXCEPT ![id] = wp], id),
                         waypoints', id, editing_waypoint)
             /\ obj' = Collect([obj EXCEPT ![id] = wp], waypoints', id, editing_waypoint)

\* `if point:` for a point that is None or a QPoint, whose truth value is that
\* of not point.isNull()
Truthy(point) == point # << >> /\ point # <<0, 0>>

(***************************************************************************)
(* DrawableLabel.mousePressEvent.  parent_viewer is always set.            *)
(***************************************************************************)
mousePressEvent(pos, button, shift) ==
    IF drawing_enabled
    THEN IF drawing_mode = "WAYPOINT"
         THEN IF button = "left"
              THEN /\ click_pos' = pos
                   /\ is_setting_angle' = TRUE
                   /\ add_waypoint(pos)
                   /\ lastOp' = Op("mousePressEvent", IF pgm # 0 THEN "added" ELSE "no map",
                                   drawing_mode)
                   /\ UNCHANGED <<docVars, modeVars, last_pos, editVars, viewVars, trip,
                                  listed, scrollVars, pathVars>>
              ELSE /\ lastOp' = Op("mousePressEvent", "ignored", drawing_mode)
                   /\ UNCHANGED <<collVars, docVars, modeVars, placeVars, editVars, viewVars, trip, panelVars>>
         ELSE /\ last_pos' = pos
              /\ lastOp' = Op("mousePressEvent", "stroke", drawing_mode)
              /\ UNCHANGED <<collVars, docVars, modeVars, is_setting_angle, click_pos,
                             temp_waypoint, editVars, viewVars, trip, panelVars>>
    ELSE IF edit_mode /\ editing_waypoint # 0 /\ pgm # 0
    THEN IF shift
         THEN /\ is_editing_angle' = TRUE
              /\ editing_start_pos' = pos
              /\ lastOp' = Op("mousePressEvent", "edit angle", drawing_mode)
              /\ UNCHANGED <<collVars, docVars, modeVars, placeVars, edit_mode,
                             editing_waypoint, viewVars, trip, panelVars>>
         ELSE /\ obj' = [obj EXCEPT ![editing_waypoint] = set_position(@, pos[1], pos[2])]
              /\ waypoint_widgets' =
                     add_waypoint_to_list(waypoint_widgets, obj', editing_waypoint)
              /\ lastOp' = Op("mousePressEvent", "edit position", drawing_mode)
              /\ UNCHANGED <<waypoints, counter, docVars, modeVars, placeVars, editVars,
                             viewVars, trip, listed, scrollVars, pathVars>>
    ELSE /\ lastOp' = Op("mousePressEvent", "ignored", drawing_mode)
         /\ UNCHANGED <<collVars, docVars, modeVars, placeVars, editVars, viewVars, trip, panelVars>>

(***************************************************************************)
(* DrawableLabel.mouseMoveEvent                                            *)
(***************************************************************************)
mouseMoveEvent(pos) ==
    IF drawing_enabled
    THEN IF is_setting_angle /\ drawing_mode = "WAYPOINT"
         THEN IF temp_waypoint # 0 /\ Truthy(click_pos)
              THEN /\ obj' = [obj EXCEPT ![temp_waypoint] =
                                 set_angle(@, Atan2(-(pos[2] - click_pos[2]),
                                                    pos[1] - click_pos[1]))]
                   /\ waypoint_widgets' =
                          add_waypoint_to_list(waypoint_widgets, obj', temp_waypoint)
                   /\ lastOp' = Op("mouseMoveEvent", "angle", drawing_mode)
                   /\ UNCHANGED <<waypoints, counter, docVars, modeVars, placeVars, editVars,
                                  viewVars, trip, listed, scrollVars, pathVars>>
              ELSE /\ lastOp' = Op("mouseMoveEvent", "ignored", drawing_mode)
                   /\ UNCHANGED <<collVars, docVars, modeVars, placeVars, editVars, viewVars, trip, panelVars>>
         ELSE IF Truthy(last_pos)
              THEN /\ last_pos' = pos
                   /\ lastOp' = Op("mouseMoveEvent", "stroke", drawing_mode)
                   /\ UNCHANGED <<collVars, docVars, modeVars, is_setting_angle, click_pos,
                                  temp_waypoint, editVars, viewVars, trip, panelVars>>
              ELSE /\ lastOp' = Op("mouseMoveEvent", "ignored", drawing_mode)
                   /\ UNCHANGED <<collVars, docVars, modeVars, placeVars, editVars, viewVars, trip, panelVars>>
    ELSE IF edit_mode /\ editing_waypoint # 0 /\ pgm # 0
    THEN /\ obj' = [obj EXCEPT ![editing_waypoint] =
                       IF is_editing_angle
                       THEN set_angle(@, Atan2(-(pos[2] - editing_start_pos[2]),
                                               pos[1] - editing_start_pos[1]))
                       ELSE set_position(@, pos[1], pos[2])]
         /\ lastOp' = Op("mouseMoveEvent",
                         IF is_editing_angle THEN "edit angle" ELSE "edit position",
                         drawing_mode)
         /\ waypoint_widgets' = add_waypoint_to_list(waypoint_widgets, obj', editing_waypoint)
         /\ UNCHANGED <<waypoints, counter, docVars, modeVars, placeVars, editVars,
                        viewVars, trip, listed, scrollVars, pathVars>>
    ELSE /\ lastOp' = Op("mouseMoveEvent", "ignored", drawing_mode)
         /\ UNCHANGED <<collVars, docVars, modeVars, placeVars, editVars, viewVars, trip, panelVars>>

(***************************************************************************)
(* DrawableLabel.mouseReleaseEvent                                         *)
(***************************************************************************)
mouseReleaseEvent(pos) ==
    IF drawing_enabled
    THEN /\ last_pos' = << >>
         /\ IF is_setting_angle /\ Truthy(click_pos)
            THEN /\ is_setting_angle' = FALSE
                 /\ click_pos' = << >>
                 /\ temp_waypoint' = 0
                 /\ IF temp_waypoint # 0
                    THEN LET turned == [obj EXCEPT ![temp_waypoint] =
                                           set_angle(@, Atan2(-(pos[2] - click_pos[2]),
                                                              pos[1] - click_pos[1]))]
                         IN  /\ waypoint_widgets' =
                                    Held(add_waypoint_to_list(waypoint_widgets, turned,
                                                              temp_waypoint),
                                         waypoints, 0, editing_waypoint)
                             /\ obj' = Collect(turned, waypoints, 0, editing_waypoint)
                    ELSE UNCHANGED <<waypoint_widgets, obj>>
                 /\ lastOp' = Op("mouseReleaseEvent", "angle", drawing_mode)
            ELSE /\ lastOp' = Op("mouseReleaseEvent", "stroke", drawing_mode)
                 /\ UNCHANGED <<obj, is_setting_angle, click_pos, temp_waypoint,
                                waypoint_widgets>>
         /\ UNCHANGED <<waypoints, counter, docVars, modeVars, editVars, viewVars, trip,
                        listed, scrollVars, pathVars>>
    ELSE IF edit_mode /\ editing_waypoint # 0
    THEN /\ is_editing_angle' = FALSE
         /\ waypoint_widgets' = add_waypoint_to_list(waypoint_widgets, obj, editing_waypoint)
         /\ lastOp' = Op("mouseReleaseEvent", "edit", drawing_mode)
         /\ UNCHANGED <<collVars, docVars, modeVars, placeVars, edit_mode,
                        editing_waypoint, editing_start_pos, viewVars, trip,
                        listed, scrollVars, pathVars>>
    ELSE /\ lastOp' = Op("mouseReleaseEvent", "ignored", drawing_mode)
         /\ UNCHANGED <<collVars, docVars, modeVars, placeVars, editVars, viewVars, trip, panelVars>>

(***************************************************************************)
(* DrawableLabel.mouseDoubleClickEvent                                     *)
(***************************************************************************)
\* abs(waypoint.pixel_x - x) < 15 and abs(waypoint.pixel_y - y) < 15
EditHitRange == 15

Abs(n) == IF n < 0 THEN -n ELSE n

Hit(wp, x, y) ==
    Abs(wp.pixel_x - x) < EditHitRange /\ Abs(wp.pixel_y - y) < EditHitRange

mouseDoubleClickEvent(pos) ==
    IF drawing_mode # "NONE" \/ pgm = 0
    THEN /\ lastOp' = Op("mouseDoubleClickEvent", "ignored", drawing_mode)
         /\ UNCHANGED <<collVars, docVars, modeVars, placeVars, editVars, viewVars, trip, panelVars>>
    ELSE IF edit_mode /\ editing_waypoint # 0
    THEN /\ edit_mode' = FALSE
         /\ editing_waypoint' = 0
         /\ obj' = Collect(obj, waypoints, temp_waypoint, 0)
         /\ waypoint_widgets' = Held(waypoint_widgets, waypoints, temp_waypoint, 0)
         /\ lastOp' = Op("mouseDoubleClickEvent", "exit", drawing_mode)
         /\ UNCHANGED <<waypoints, counter, docVars, modeVars, placeVars,
                        is_editing_angle, editing_start_pos, viewVars, trip,
                        listed, scrollVars, pathVars>>
    ELSE IF \E i \in 1..Len(waypoints) : Hit(WP(i), pos[1], pos[2])
    THEN LET first == CHOOSE i \in 1..Len(waypoints) :
                          /\ Hit(WP(i), pos[1], pos[2])
                          /\ \A j \in 1..(i - 1) : ~Hit(WP(j), pos[1], pos[2])
         IN  /\ edit_mode' = TRUE
             /\ editing_waypoint' = waypoints[first]
             /\ lastOp' = Op("mouseDoubleClickEvent", "enter", drawing_mode)
             /\ UNCHANGED <<collVars, docVars, modeVars, placeVars,
                            is_editing_angle, editing_start_pos, viewVars, trip, panelVars>>
    ELSE /\ lastOp' = Op("mouseDoubleClickEvent", "miss", drawing_mode)
         /\ UNCHANGED <<collVars, docVars, modeVars, placeVars, editVars, viewVars, trip, panelVars>>

(***************************************************************************)
(* ImageViewer.remove_waypoint, remove_all_waypoints, reorder_waypoints    *)
(***************************************************************************)
\* a filter that also drops every waypoint after the one removed
KeptBelow(objs, wps, number) == SelectSeq(wps, LAMBDA i : objs[i].number < number)

\* [wp for wp in self.waypoints if wp.number != number]
Kept(objs, wps, number) == SelectSeq(wps, LAMBDA i : objs[i].number # number)

remove_waypoint(number) ==
    LET kept == Kept(obj, waypoints, number)
    IN  /\ waypoints' = kept
        /\ counter' = Len(kept)
        /\ waypoint_widgets' =
               Held(AddedToList(remove_waypoint_from_list(waypoint_widgets, number),
                                RenumberAll(obj, kept), kept, 1),
                    kept, temp_waypoint, editing_waypoint)
        /\ obj' = Collect(RenumberAll(obj, kept), kept, temp_waypoint, editing_waypoint)
        /\ lastOp' = Op("remove_waypoint",
                        IF Len(kept) < Len(waypoints) THEN "removed" ELSE "absent",
                        drawing_mode)
        /\ UNCHANGED <<docVars, modeVars, placeVars, editVars, viewVars, trip,
                       listed, scrollVars, pathVars>>

\* remove_waypoint of src/main.py, whose Waypoint class has neither
\* reset_counter nor renumber: the list is filtered, then
\* Waypoint.reset_counter() raises AttributeError and the slot is left
main_remove_waypoint(number) ==
    LET kept == Kept(obj, waypoints, number)
    IN  /\ waypoints' = kept
        /\ counter' = counter
        /\ obj' = Collect(obj, kept, temp_waypoint, editing_waypoint)
        /\ waypoint_widgets' = Held(waypoint_widgets, kept, temp_waypoint, editing_waypoint)
        /\ lastOp' = Op("main.remove_waypoint", "raised", drawing_mode)
        /\ UNCHANGED <<docVars, modeVars, placeVars, editVars, viewVars, trip,
                       listed, scrollVars, pathVars>>

\* a clear that leaves Waypoint.counter as it is
clear_waypoints ==
    /\ waypoints' = << >>
    /\ counter' = counter
    /\ waypoint_widgets' = remove_waypoint_from_list(waypoint_widgets, -1)
    /\ obj' = Collect(obj, << >>, temp_waypoint, editing_waypoint)
    /\ lastOp' = Op("remove_all_waypoints",
                    IF waypoints # << >> THEN "emptied" ELSE "was empty", drawing_mode)
    /\ UNCHANGED <<docVars, modeVars, placeVars, editVars, viewVars, trip,
                   listed, scrollVars, pathVars>>

remove_all_waypoints ==
    /\ waypoints' = << >>
    /\ counter' = 0
    /\ waypoint_widgets' = remove_waypoint_from_list(waypoint_widgets, -1)
    /\ obj' = Collect(obj, << >>, temp_waypoint, editing_waypoint)
    /\ lastOp' = Op("remove_all_waypoints",
                    IF waypoints # << >> THEN "emptied" ELSE "was empty", drawing_mode)
    /\ UNCHANGED <<docVars, modeVars, placeVars, editVars, viewVars, trip,
                   listed, scrollVars, pathVars>>

\* the index (from 1) of the first waypoint numbered n, 0 when there is none
IndexOf(objs, wps, n) ==
    IF \E i \in 1..Len(wps) : objs[wps[i]].number = n
    THEN CHOOSE i \in 1..Len(wps) :
             /\ objs[wps[i]].number = n
             /\ \A j \in 1..(i - 1) : objs[wps[j]].number # n
    ELSE 0

\* list.pop(index), index from 1
Pop(seq, i) == SubSeq(seq, 1, i - 1) \o SubSeq(seq, i + 1, Len(seq))

\* list.insert(index, e), index from 1: e lands at that index
Insert(seq, i, e) == SubSeq(seq, 1, i - 1) \o <<e>> \o SubSeq(seq, i, Len(seq))

\* pop(source_index), then insert(target_index, source_wp) on either branch
Moved(wps, source_index, target_index) ==
    Insert(Pop(wps, source_index), target_index, wps[source_index])

\* the body of reorder_waypoints, called as the operation caller, which says
\* what becomes of the drag and of the scrolling
reordered(source_number, target_number, caller) ==
    LET source_index == IndexOf(obj, waypoints, source_number)
        target_index == IndexOf(obj, waypoints, target_number)
    IN  IF waypoints = << >> \/ source_index = 0 \/ target_index = 0
        THEN /\ lastOp' = Op(caller, "returned", drawing_mode)
             /\ UNCHANGED <<collVars, docVars, modeVars, placeVars, editVars, viewVars, trip,
                            listVars, pathVars>>
        ELSE LET moved == Moved(waypoints, source_index, target_index)
             IN  /\ waypoints' = moved
                 /\ counter' = Len(moved)
                 /\ waypoint_widgets' =
                        AddedToList(remove_waypoint_from_list(waypoint_widgets, -1),
                                    RenumberAll(obj, moved), moved, 1)
                 /\ obj' = RenumberAll(obj, moved)
                 /\ lastOp' = Op(caller, "moved", drawing_mode)
                 /\ UNCHANGED <<docVars, modeVars, placeVars, editVars, viewVars, trip,
                                listed, pathVars>>

reorder_waypoints(source_number, target_number) ==
    /\ reordered(source_number, target_number, "reorder_waypoints")
    /\ UNCHANGED scrollVars

(***************************************************************************)
(* Dragging an item of the waypoint list: WaypointListItem's handlers and  *)
(* RightPanel's auto-scroll timer.  QDrag.exec() runs the events of the    *)
(* drag inside mousePressEvent; `drag` is that handler's position.         *)
(***************************************************************************)
\* scroll_timer after start_auto_scroll: a timer is made if there is none
start_auto_scroll(timers) == IF timers = 0 THEN 1 ELSE timers

\* stop_auto_scroll: the timer, if there is one, is stopped and forgotten
stop_auto_scroll ==
    /\ scroll_timer' = 0
    /\ scroll_region' = IF scroll_timer # 0 THEN "None" ELSE scroll_region

\* where the cursor is in the list's scroll area: within the margin of its top
\* edge, within the margin of its bottom edge, or between the two
Zones == {"top", "middle", "bottom"}

\* the branches shared by mouseMoveEvent (margin 20) and dragMoveEvent (50)
scroll_by_zone(zone) ==
    IF zone = "middle" THEN stop_auto_scroll
    ELSE /\ scroll_region' = IF zone = "top" THEN "up" ELSE "down"
         /\ scroll_timer' = start_auto_scroll(scroll_timer)

\* an item of the list under the key number
Item(number) == listed /\ waypoint_widgets[number] # 0

WaypointListItem_mousePressEvent(number, button) ==
    /\ Item(number)
    /\ drag = 0 /\ grab = 0
    /\ IF button = "left"
       THEN /\ stop_auto_scroll
            /\ drag' = number
            /\ UNCHANGED grab
       ELSE /\ grab' = number
            /\ UNCHANGED <<scroll_timer, scroll_region, drag>>
    /\ lastOp' = Op("WaypointListItem.mousePressEvent", button, "")
    /\ UNCHANGED <<collVars, docVars, modeVars, placeVars, editVars, viewVars, trip,
                   listVars, scroll_value, pathVars>>

\* moves reach the item that took a press of another button than the left
WaypointListItem_mouseMoveEvent(zone) ==
    /\ grab # 0
    /\ scroll_by_zone(zone)
    /\ lastOp' = Op("WaypointListItem.mouseMoveEvent", zone, "")
    /\ UNCHANGED <<collVars, docVars, modeVars, placeVars, editVars, viewVars, trip,
                   listVars, scroll_value, drag, grab, pathVars>>

\* dragEnterEvent accepts the drag over every item but the one dragged
dragMoveEvent(number, zone) ==
    /\ Item(number)
    /\ drag # 0 /\ number # drag
    /\ scroll_by_zone(zone)
    /\ lastOp' = Op("dragMoveEvent", zone, "")
    /\ UNCHANGED <<collVars, docVars, modeVars, placeVars, editVars, viewVars, trip,
                   listVars, scroll_value, drag, grab, pathVars>>

\* the release of that other button
WaypointListItem_mouseReleaseEvent ==
    /\ grab # 0
    /\ stop_auto_scroll
    /\ grab' = 0
    /\ lastOp' = Op("WaypointListItem.mouseReleaseEvent", "", "")
    /\ UNCHANGED <<collVars, docVars, modeVars, placeVars, editVars, viewVars, trip,
                   listVars, scroll_value, drag, pathVars>>

\* scroll_speed = int(5 + 25 * speed_factor): the slowest and the fastest
ScrollSpeeds == {5, 30}

\* RightPanel.auto_scroll, the timer's slot; the scroll bar runs from 0 to
\* MaxScroll
auto_scroll(scroll_speed) ==
    /\ scroll_timer # 0
    /\ LET new_value ==
               IF scroll_region = "up"
               THEN (IF scroll_value - scroll_speed < 0 THEN 0
                     ELSE scroll_value - scroll_speed)
               ELSE IF scroll_region = "down"
               THEN (IF scroll_value + scroll_speed > MaxScroll THEN MaxScroll
                     ELSE scroll_value + scroll_speed)
               ELSE scroll_value
       IN  /\ scroll_value' = new_value
           /\ IF \/ scroll_region = "up" /\ new_value = 0
                 \/ scroll_region = "down" /\ new_value = MaxScroll
              THEN stop_auto_scroll
              ELSE UNCHANGED <<scroll_timer, scroll_region>>
    /\ lastOp' = Op("auto_scroll", "", "")
    /\ UNCHANGED <<collVars, docVars, modeVars, placeVars, editVars, viewVars, trip,
                   listVars, drag, grab, pathVars>>

\* WaypointListItem.dropEvent on the item under the key number, after which
\* QDrag.exec() and with it mousePressEvent return.  source_number differs
\* from target_number on every item that accepted the drag.
dropEvent(number) ==
    /\ Item(number)
    /\ drag # 0 /\ number # drag
    /\ reordered(drag, number, "dropEvent")
    /\ drag' = 0
    /\ UNCHANGED <<scroll_timer, scroll_region, scroll_value, grab>>

\* the button is released over no item that accepts the drag, or Escape is
\* pressed: QDrag.exec() and mousePressEvent return
drag_cancelled ==
    /\ drag # 0
    /\ drag' = 0
    /\ lastOp' = Op("QDrag.exec", "cancelled", "")
    /\ UNCHANGED <<collVars, docVars, modeVars, placeVars, editVars, viewVars, trip,
                   listVars, scroll_timer, scroll_region, scroll_value, grab, pathVars>>

(***************************************************************************)
(* ImageViewer.load_yaml_file: the map sidecar's origin and resolution.    *)
(* A sidecar is [has_origin, origin, has_resolution, resolution].          *)
(***************************************************************************)
Sidecar(ho, o, hr, r) ==
    [has_origin |-> ho, origin |-> o, has_resolution |-> hr, resolution |-> r]

\* origin: [-1.0, -2.0], resolution: 0.05
SidecarFine == Sidecar(TRUE, <<FFromInt(-1), FFromInt(-2)>>, TRUE, DefaultResolution)
\* origin: [-1.0, -2.0, 0.0] with no resolution key: the default 0.05 applies
SidecarDefault == Sidecar(TRUE, <<FFromInt(-1), FFromInt(-2), FZero>>, FALSE, FZero)
\* origin: [-1.0, -2.0], resolution: 0.1
SidecarCoarse == Sidecar(TRUE, <<FFromInt(-1), FFromInt(-2)>>, TRUE, CoarseResolution)
\* resolution: 0.0
SidecarZero == Sidecar(TRUE, <<FFromInt(-1), FFromInt(-2)>>, TRUE, FZero)
\* origin: [abc, -2.0], resolution: 0.1
SidecarText == Sidecar(TRUE, <<NonNumeric, FFromInt(-2)>>, TRUE, CoarseResolution)
\* origin: [-1.0]
SidecarShort == Sidecar(TRUE, <<FFromInt(-1)>>, TRUE, CoarseResolution)
\* no origin key
SidecarBare == Sidecar(FALSE, << >>, TRUE, CoarseResolution)

Sidecars ==
    {SidecarFine, SidecarDefault, SidecarCoarse, SidecarZero, SidecarText, SidecarShort, SidecarBare}

IsNumber(v) == v.k \in {"fin", "nan", "inf"}

\* float(yaml_data.get('resolution', 0.05))
SidecarResolution(y) == IF y.has_resolution THEN y.resolution ELSE DefaultResolution

\* int(-v / res) raises: TypeError, ZeroDivisionError, ValueError or OverflowError
OriginPixelRaises(v, res) ==
    \/ ~IsNumber(v)
    \/ FDivRaises(FNeg(v), res)
    \/ FTruncRaises(FDiv(FNeg(v), res))

\* int(-v / res)
OriginPixel(v, res) == FTrunc(FDiv(FNeg(v), res))

\* the two conversions of a sidecar, tabulated once: << >> when one raises
SidecarPixels ==
    [y \in Sidecars |->
        LET res == SidecarResolution(y)
        IN  IF ~y.has_origin \/ Len(y.origin) < 2 \/ ~IsNumber(res) THEN << >>
            ELSE IF OriginPixelRaises(y.origin[1], res) \/ OriginPixelRaises(y.origin[2], res)
            THEN << >>
            ELSE <<OriginPixel(y.origin[1], res), OriginPixel(y.origin[2], res)>>]

\* the pixel row as converted, measured from the top of the map
NoFlipY(y_pixel, height) == y_pixel

\* y_pixel = height - y_pixel when a map is loaded
FlipY(y_pixel, height) == IF height # 0 THEN height - y_pixel ELSE y_pixel

\* update_all_waypoint_coordinates
update_all_waypoint_coordinates(objs, wps, origin, res) ==
    [i \in Ids |->
        IF i \in Range(wps)
        THEN update_metric_coordinates(objs[i], origin[1], origin[2], res)
        ELSE objs[i]]

\* the body of load_yaml_file on a document whose map has the given height
\* (0: no map), called as the operation caller
read_sidecar(y, height, caller) ==
    LET res == SidecarResolution(y)
    IN  IF ~y.has_origin \/ Len(y.origin) < 2 \/ ~IsNumber(res)
        THEN /\ lastOp' = Op(caller, "no effect", drawing_mode)
             /\ UNCHANGED <<collVars, origin_point, resolution, modeVars, placeVars,
                            editVars, show_grid, trip, panelVars>>
        ELSE IF SidecarPixels[y] = << >>
        THEN /\ resolution' = res
             /\ lastOp' = Op(caller, "raised", drawing_mode)
             /\ UNCHANGED <<collVars, origin_point, modeVars, placeVars, editVars,
                            show_grid, trip, panelVars>>
        ELSE LET origin == <<SidecarPixels[y][1], FlipY(SidecarPixels[y][2], height)>>
             IN  /\ resolution' = res
                 /\ origin_point' = origin
                 /\ obj' = update_all_waypoint_coordinates(obj, waypoints, origin, res)
                 /\ waypoint_widgets' = AddedToList(waypoint_widgets, obj', waypoints, 1)
                 /\ lastOp' = Op(caller, "origin set", drawing_mode)
                 /\ UNCHANGED <<waypoints, counter, modeVars, placeVars, editVars,
                                show_grid, trip, listed, scrollVars, pathVars>>

load_yaml_file(y) ==
    /\ read_sidecar(y, pgm, "load_yaml_file")
    /\ UNCHANGED <<pgm, layers, display>>

(***************************************************************************)
(* MainWindow.load_pgm_file.  A file is [magic, dims, maxval, length]:     *)
(* the first line, the tokens of the first line that is no comment, the    *)
(* token of the line after it, and the number of bytes that follow.        *)
(***************************************************************************)
Token(n) == [k |-> "int", v |-> n]
Junk == [k |-> "str", v |-> 0]

Pgm(magic, dims, maxval, length) ==
    [magic |-> magic, dims |-> dims, maxval |-> maxval, length |-> length]

\* a 4 x 100 map and a 4 x 80 map
PgmTall == Pgm("P5", <<Token(4), Token(100)>>, Token(255), 400)
PgmLow == Pgm("P5", <<Token(4), Token(80)>>, Token(255), 320)
\* an ASCII map
PgmAscii == Pgm("P2", <<Token(4), Token(80)>>, Token(255), 320)
\* headers that do not parse
PgmOneDim == Pgm("P5", <<Token(80)>>, Token(255), 320)
PgmJunkDim == Pgm("P5", <<Token(4), Junk>>, Token(255), 320)
PgmJunkMax == Pgm("P5", <<Token(4), Token(80)>>, Junk, 320)
\* a 4 x 80 map cut short by one byte
PgmShort == Pgm("P5", <<Token(4), Token(80)>>, Token(255), 319)

PgmFiles == {PgmTall, PgmLow, PgmAscii, PgmOneDim, PgmJunkDim, PgmJunkMax, PgmShort}

\* a check of the magic and the header that leaves the data's length alone
PgmRaisesOnHeader(f) ==
    \/ f.magic # "P5"
    \/ Len(f.dims) # 2
    \/ \E i \in 1..Len(f.dims) : f.dims[i].k # "int"
    \/ f.maxval.k # "int"

\* what load_pgm_file raises before it calls load_image
PgmRaises(f) ==
    \/ f.magic # "P5"
    \/ Len(f.dims) # 2
    \/ \E i \in 1..Len(f.dims) : f.dims[i].k # "int"
    \/ f.maxval.k # "int"
    \/ f.length # f.dims[1].v * f.dims[2].v

load_pgm_file(f) ==
    IF PgmRaises(f)
    THEN /\ lastOp' = Op("load_pgm_file", "raised", "")
         /\ UNCHANGED <<collVars, docVars, modeVars, placeVars, editVars, viewVars, trip, panelVars>>
    ELSE /\ set_pixmaps(f.dims[2].v)
         /\ lastOp' = Op("load_pgm_file", "loaded", "")
         /\ UNCHANGED <<collVars, origin_point, resolution, modeVars, placeVars,
                        editVars, show_grid, trip, panelVars>>

(***************************************************************************)
(* MainWindow.load_yaml_file: the map named by the sidecar's image key is  *)
(* loaded if the file exists, then the sidecar is read.  A map YAML is     *)
(* [named, exists, image, sidecar].                                        *)
(***************************************************************************)
MapYaml(named, exists, image, sidecar) ==
    [named |-> named, exists |-> exists, image |-> image, sidecar |-> sidecar]

\* the images a map YAML names: none, a missing file, a map, a map cut short
Images ==
    {<<FALSE, FALSE, PgmLow>>, <<TRUE, FALSE, PgmLow>>, <<TRUE, TRUE, PgmLow>>,
     <<TRUE, TRUE, PgmShort>>}

MapYamls ==
    {MapYaml(i[1], i[2], i[3], y) :
        i \in Images, y \in {SidecarFine, SidecarZero, SidecarText, SidecarBare}}

\* the map is replaced before the sidecar is read
LoadsImage(m) == m.named /\ m.exists /\ ~PgmRaises(m.image)

MainWindow_load_yaml_file(m) ==
    IF LoadsImage(m)
    THEN /\ set_pixmaps(m.image.dims[2].v)
         /\ read_sidecar(m.sidecar, pgm', "MainWindow.load_yaml_file")
    ELSE /\ UNCHANGED <<pgm, layers, display>>
         /\ read_sidecar(m.sidecar, pgm, "MainWindow.load_yaml_file")

(***************************************************************************)
(* ImageViewer.import_waypoints_from_yaml.  A file is [has_waypoints,      *)
(* entries]; an entry gives x, y (metres) and angle_degrees, each of which *)
(* may be missing or not a number.                                         *)
(***************************************************************************)
AngleMissing == [k |-> "missing", deg |-> 0]

Entry(x, y, a) == [x |-> x, y |-> y, angle_degrees |-> a]

\* {x: 0.5, y: 1.0, angle_degrees: 90.0}
EntryValid == Entry(FDiv(FFromInt(1), FFromInt(2)), FFromInt(1), AngleDeg(90))
\* {x: 1.0, y: 0.0, angle_degrees: .nan}
EntryNan == Entry(FFromInt(1), FZero, AngleNan)
\* {x: 1.0, y: 0.0}
EntryNoAngle == Entry(FFromInt(1), FZero, AngleMissing)

\* {y: 1.0, angle_degrees: 90.0} and {x: 0.5, angle_degrees: 90.0}
Missing == [k |-> "missing", s |-> 1, m |-> << >>, e |-> 0]
EntryNoX == Entry(Missing, FFromInt(1), AngleDeg(90))
EntryNoY == Entry(FDiv(FFromInt(1), FFromInt(2)), Missing, AngleDeg(90))

ImportEntries == {EntryValid, EntryNan, EntryNoAngle, EntryNoX, EntryNoY}

RECURSIVE SeqsUpTo(_, _)
SeqsUpTo(S, n) ==
    IF n = 0 THEN {<< >>}
    ELSE LET shorter == SeqsUpTo(S, n - 1)
         IN  shorter \cup {Append(q, e) : q \in {r \in shorter : Len(r) = n - 1}, e \in S}

ImportFiles ==
    {[has_waypoints |-> FALSE, entries |-> << >>]}
        \cup {[has_waypoints |-> TRUE, entries |-> q] : q \in SeqsUpTo(ImportEntries, MaxImport)}

\* wp_data[key] raises KeyError, or int(origin +- metres / res) raises
MetricToPixelRaises(metres, res) ==
    \/ ~IsNumber(metres)
    \/ FDivRaises(metres, res)
    \/ ~FIsFinite(metres)
    \/ ~FIsFinite(res)

\* pixel_x = int(origin_x + (x_meters / self.resolution))
MetricToPixelX(x_meters, origin_x, res) ==
    FTrunc(FAdd(FFromInt(origin_x), FDiv(x_meters, res)))

\* pixel_y = int(origin_y - (y_meters / self.resolution))
MetricToPixelY(y_meters, origin_y, res) ==
    FTrunc(FSub(FFromInt(origin_y), FDiv(y_meters, res)))

\* the two conversions over the files' coordinates, tabulated once
ImportMetres ==
    {v \in {e.x : e \in ImportEntries} \cup {e.y : e \in ImportEntries} : IsNumber(v)}

PixelsX ==
    [res \in Resolutions \ {FZero} |-> [m \in ImportMetres |->
        [o \in 0..MaxPixel |-> MetricToPixelX(m, o, res)]]]

PixelsY ==
    [res \in Resolutions \ {FZero} |-> [m \in ImportMetres |->
        [o \in 0..MaxPixel |-> MetricToPixelY(m, o, res)]]]

\* np.radians(angle_degrees)
Radians(a) == a

\* what the body of the try block raises before Waypoint(...) is called
EntryRaises(e, res) ==
    \/ MetricToPixelRaises(e.x, res)
    \/ MetricToPixelRaises(e.y, res)
    \/ e.angle_degrees.k \notin {"fin", "nan"}

\* one pass of the loop body on the state st = [wps, objs, ctr]
ImportEntry(e, st, origin, res) ==
    IF origin = << >> \/ EntryRaises(e, res)
    THEN st
    ELSE IF update_display_name_raises([angle |-> Radians(e.angle_degrees)])
    THEN [st EXCEPT !.ctr = @ + 1]
    ELSE LET made == WaypointInit(st.ctr + 1,
                                  PixelsX[res][e.x][origin[1]],
                                  PixelsY[res][e.y][origin[2]],
                                  Radians(e.angle_degrees))
             id == Alloc(st.objs)
         IN  [wps |-> Append(st.wps, id),
              objs |-> [st.objs EXCEPT ![id] =
                          update_metric_coordinates(made, origin[1], origin[2], res)],
              ctr |-> st.ctr + 1]

RECURSIVE ImportLoop(_, _, _, _, _)
ImportLoop(entries, i, st, origin, res) ==
    IF i > Len(entries) THEN st
    ELSE ImportLoop(entries, i + 1, ImportEntry(entries[i], st, origin, res), origin, res)

import_waypoints_from_yaml(data) ==
    IF ~data.has_waypoints
    THEN /\ lastOp' = Op("import_waypoints_from_yaml", "returned", drawing_mode)
         /\ UNCHANGED <<collVars, docVars, modeVars, placeVars, editVars, viewVars, trip, panelVars>>
    ELSE LET cleared == [wps |-> << >>,
                         objs |-> Collect(obj, << >>, temp_waypoint, editing_waypoint),
                         ctr |-> 0]
             done == ImportLoop(data.entries, 1, cleared, origin_point, resolution)
         IN  /\ waypoints' = done.wps
             /\ obj' = done.objs
             /\ counter' = done.ctr
             /\ waypoint_widgets' =
                    AddedToList(Held(waypoint_widgets, << >>, temp_waypoint, editing_waypoint),
                                done.objs, done.wps, 1)
             /\ lastOp' = Op("import_waypoints_from_yaml", "imported", drawing_mode)
             /\ UNCHANGED <<docVars, modeVars, placeVars, editVars, viewVars, trip,
                            listed, scrollVars, pathVars>>

(***************************************************************************)
(* The layer panel and the grid button.                                    *)
(***************************************************************************)
\* a setter that notifies on every call
set_visible_notifying(name, visible) ==
    /\ layers' = [layers EXCEPT ![name].visible = visible]
    /\ update_display(layers', show_grid)
    /\ lastOp' = Op("set_visible", "emitted", "")
    /\ UNCHANGED <<collVars, docVars, modeVars, placeVars, editVars, show_grid, trip, panelVars>>

\* Layer.set_visible, from the layer panel's check box; changed.emit() runs
\* on_layer_changed, which is update_display, and lastOp.a says whether it ran
set_visible(name, visible) ==
    /\ layers' = [layers EXCEPT ![name].visible = visible]
    /\ IF layers[name].visible # visible
       THEN update_display(layers', show_grid)
       ELSE UNCHANGED display
    /\ lastOp' = Op("set_visible", IF layers[name].visible # visible THEN "emitted" ELSE "quiet", "")
    /\ UNCHANGED <<collVars, docVars, modeVars, placeVars, editVars, show_grid, trip, panelVars>>

Clamp(percent) == IF percent < 0 THEN 0 ELSE IF percent > 100 THEN 100 ELSE percent

\* Layer.set_opacity, from the layer panel's slider
set_opacity(name, percent) ==
    /\ layers' = [layers EXCEPT ![name].opacity = Clamp(percent)]
    /\ IF layers[name].opacity # Clamp(percent)
       THEN update_display(layers', show_grid)
       ELSE UNCHANGED display
    /\ lastOp' = Op("set_opacity",
                    IF layers[name].opacity # Clamp(percent) THEN "emitted" ELSE "quiet", "")
    /\ UNCHANGED <<collVars, docVars, modeVars, placeVars, editVars, show_grid, trip, panelVars>>

\* the content of a layer above the map comes to cover the pixel (draw_line,
\* generate_path, add_waypoint, draw_origin_point) or to leave it uncovered
\* (a new map, a path generated again, remove_waypoint, a new origin), and the
\* operation ends in update_display
set_content(name, covers) ==
    /\ layers["pgm"].ink
    /\ layers' = [layers EXCEPT ![name].ink = covers]
    /\ update_display(layers', show_grid)
    /\ lastOp' = Op("set_content", "", "")
    /\ UNCHANGED <<collVars, docVars, modeVars, placeVars, editVars, show_grid, trip, panelVars>>

\* ImageViewer.toggle_grid
toggle_grid ==
    /\ show_grid' = ~show_grid
    /\ update_display(layers, show_grid')
    /\ lastOp' = Op("toggle_grid", "", "")
    /\ UNCHANGED <<collVars, docVars, modeVars, placeVars, editVars, layers, trip, panelVars>>

(***************************************************************************)
(* One point taken from pixels to metres and back.                         *)
(***************************************************************************)
\* Waypoint.update_metric_coordinates (MapProcessor.convert_coordinates)
pixel_to_metric ==
    /\ trip.stage = "pixel"
    /\ trip' = [trip EXCEPT !.stage = "metric",
                            !.x = FMul(FFromInt(trip.p[1] - trip.o[1]), trip.r),
                            !.y = FMul(FFromInt(trip.o[2] - trip.p[2]), trip.r)]
    /\ lastOp' = Op("pixel_to_metric", "", "")
    /\ UNCHANGED <<collVars, docVars, modeVars, placeVars, editVars, viewVars, panelVars>>

\* the conversion in the loop of import_waypoints_from_yaml
metric_to_pixel ==
    /\ trip.stage = "metric"
    /\ ~MetricToPixelRaises(trip.x, trip.r)
    /\ ~MetricToPixelRaises(trip.y, trip.r)
    /\ trip' = [trip EXCEPT !.stage = "back",
                            !.back = <<MetricToPixelX(trip.x, trip.o[1], trip.r),
                                       MetricToPixelY(trip.y, trip.o[2], trip.r)>>]
    /\ lastOp' = Op("metric_to_pixel", "", "")
    /\ UNCHANGED <<collVars, docVars, modeVars, placeVars, editVars, viewVars, panelVars>>

(***************************************************************************)
(* The waypoint collection.  A map and its sidecar are loaded, the         *)
(* waypoint tool is switched on and off, waypoints are placed with the     *)
(* left button, and the list panel and the import dialog call remove,      *)
(* remove all, reorder and import with any number and any file.            *)
(***************************************************************************)
\* where the collection's waypoints are placed
PlacePoint == <<2, 3>>

\* a press with this button would place a waypoint
Places(button) ==
    drawing_enabled /\ drawing_mode = "WAYPOINT" /\ button = "left" /\ pgm # 0

NextCollection ==
    \/ set_drawing_mode("WAYPOINT")
    \/ \E height \in {100} : load_image(height)
    \/ load_yaml_file(SidecarFine)
    \/ /\ Places("left") => Len(waypoints) < MaxWaypoints
       /\ mousePressEvent(PlacePoint, "left", FALSE)
    \/ mouseReleaseEvent(PlacePoint)
    \/ \E number \in Numbers : remove_waypoint(number)
    \/ remove_all_waypoints
    \/ \E source_number \in Numbers, target_number \in Numbers :
           reorder_waypoints(source_number, target_number)
    \/ \E data \in ImportFiles : import_waypoints_from_yaml(data)

SpecCollection == Init /\ [][NextCollection]_vars

(***************************************************************************)
(* The pointer.  On a loaded map the three tool buttons and the mouse are  *)
(* used in any order, with either button and with or without Shift.        *)
(***************************************************************************)
Tools == {"PEN", "ERASER", "WAYPOINT"}
Buttons == {"left", "right"}

NextPointer ==
    \/ \E mode \in Tools : set_drawing_mode(mode)
    \/ \E height \in {100} : load_image(height)
    \/ \E pos \in Points, button \in Buttons, shift \in BOOLEAN :
           /\ Places(button) => Len(waypoints) < MaxPlaced
           /\ mousePressEvent(pos, button, shift)
    \/ \E pos \in Points : mouseMoveEvent(pos)
    \/ \E pos \in Points : mouseReleaseEvent(pos)
    \/ \E pos \in Points : mouseDoubleClickEvent(pos)

SpecPointer == Init /\ [][NextPointer]_vars

(***************************************************************************)
(* The document.  Maps and sidecars of every kind are loaded in any order  *)
(* while waypoints are placed.                                             *)
(***************************************************************************)
NextDocument ==
    \/ set_drawing_mode("WAYPOINT")
    \/ \E height \in MapHeights : load_image(height)
    \/ \E y \in Sidecars : load_yaml_file(y)
    \/ \E pos \in Points :
           /\ Places("left") => Len(waypoints) < MaxPlaced
           /\ mousePressEvent(pos, "left", FALSE)
    \/ mouseReleaseEvent(PlacePoint)

SpecDocument == Init /\ [][NextDocument]_vars

(***************************************************************************)
(* The files.  Map files and map YAMLs of every kind are opened from the   *)
(* menu in any order while waypoints are placed and strokes are drawn.     *)
(***************************************************************************)
NextFiles ==
    \/ set_drawing_mode("WAYPOINT")
    \/ \E f \in PgmFiles : load_pgm_file(f)
    \/ \E m \in MapYamls : MainWindow_load_yaml_file(m)
    \/ /\ Places("left") => Len(waypoints) < MaxPlaced
       /\ mousePressEvent(PlacePoint, "left", FALSE)
    \/ mouseReleaseEvent(PlacePoint)
    \/ \E covers \in BOOLEAN : set_content("drawing", covers)

SpecFiles == Init /\ [][NextFiles]_vars

(***************************************************************************)
(* Placing.  With the waypoint tool, waypoints are placed on a map by      *)
(* presses, moves and releases at the label's corner and near it.          *)
(***************************************************************************)
CornerPoints == {<<0, 0>>, <<0, 3>>, <<3, 3>>}

NextPlacing ==
    \/ set_drawing_mode("WAYPOINT")
    \/ \E height \in {100} : load_image(height)
    \/ \E pos \in CornerPoints, button \in Buttons :
           /\ Places(button) => Len(waypoints) < MaxPlaced
           /\ mousePressEvent(pos, button, FALSE)
    \/ \E pos \in CornerPoints : mouseMoveEvent(pos)
    \/ \E pos \in CornerPoints : mouseReleaseEvent(pos)

SpecPlacing == Init /\ [][NextPlacing]_vars

(***************************************************************************)
(* Editing.  Waypoints are placed along the map's diagonal, the tool is    *)
(* switched off, and double-clicks on the diagonal enter and leave the     *)
(* edit mode, in which a press moves the waypoint edited.                  *)
(***************************************************************************)
DiagonalPoints == {<<3, 3>>, <<17, 17>>, <<40, 40>>}

NextEditing ==
    \/ set_drawing_mode("WAYPOINT")
    \/ \E height \in {100} : load_image(height)
    \/ \E pos \in DiagonalPoints :
           /\ Places("left") => Len(waypoints) < MaxPlaced
           /\ mousePressEvent(pos, "left", FALSE)
    \/ \E pos \in DiagonalPoints : mouseReleaseEvent(pos)
    \/ \E pos \in DiagonalPoints : mouseDoubleClickEvent(pos)

SpecEditing == Init /\ [][NextEditing]_vars

(***************************************************************************)
(* ImageViewer.generate_path, the slot of RightPanel.generate_path_requested, *)
(* and RightPanel.handle_path_toggle, the slot of the Generate Path        *)
(* button's clicked signal.  path is what is drawn on the path raster: the *)
(* segments as (x1, y1, x2, y2), in drawing order.                         *)
(***************************************************************************)
\* the drawLine calls of the loop over range(len(self.waypoints) - 1)
Segments(objs, wps) ==
    [i \in 1..(Len(wps) - 1) |->
        <<objs[wps[i]].pixel_x, objs[wps[i]].pixel_y,
          objs[wps[i + 1]].pixel_x, objs[wps[i + 1]].pixel_y>>]

\* generate_path with the button's state checked; with no map the size of the
\* base raster cannot be read and the slot raises.  The pixel followed lies
\* on the path when there is one.
generate_path(checked) ==
    IF Len(waypoints) >= 2
    THEN IF pgm = 0
         THEN /\ lastOp' = Op("handle_path_toggle", "raised", drawing_mode)
              /\ UNCHANGED <<path, layers, display>>
         ELSE /\ path' = IF checked THEN Segments(obj, waypoints) ELSE << >>
              /\ layers' = [layers EXCEPT !["path"].ink = (path' # << >>)]
              /\ update_display(layers', show_grid)
              /\ lastOp' = Op("handle_path_toggle", "drawn", drawing_mode)
    ELSE /\ lastOp' = Op("handle_path_toggle", "too few", drawing_mode)
         /\ UNCHANGED <<path, layers, display>>

\* a click on the checkable button toggles it, then runs the slot
handle_path_toggle ==
    /\ path_checked' = ~path_checked
    /\ generate_path(path_checked')
    /\ UNCHANGED <<collVars, pgm, origin_point, resolution, modeVars, placeVars,
                   editVars, show_grid, trip, listVars, scrollVars>>

(***************************************************************************)
(* The path.  Waypoints are placed at one point of a map, moved to another *)
(* in the edit mode, removed and reordered while the Generate Path button  *)
(* is clicked.                                                             *)
(***************************************************************************)
NextPath ==
    \/ \E mode \in {"WAYPOINT"} : set_drawing_mode(mode)
    \/ \E height \in {100} : load_image(height)
    \/ /\ Places("left")
       /\ Len(waypoints) < MaxPlaced
       /\ mousePressEvent(PlacePoint, "left", FALSE)
    \/ \E pos \in Points :
           /\ ~drawing_enabled
           /\ mousePressEvent(pos, "left", FALSE)
    \/ mouseReleaseEvent(PlacePoint)
    \/ mouseDoubleClickEvent(PlacePoint)
    \/ \E number \in 1..MaxPlaced : remove_waypoint(number)
    \/ \E source_number \in 1..MaxPlaced, target_number \in 1..MaxPlaced :
           reorder_waypoints(source_number, target_number)
    \/ handle_path_toggle

SpecPath == Init /\ [][NextPath]_vars

(***************************************************************************)
(* The document with its list panel.  Waypoints are placed, edited by      *)
(* double-click, removed, reordered and imported while the list panel      *)
(* follows the viewer's signals.                                           *)
(***************************************************************************)
\* a file of one waypoint, and one of two whose second has no x
PanelFiles ==
    {[has_waypoints |-> TRUE, entries |-> q] :
        q \in {<<EntryValid>>, <<EntryValid, EntryNoX>>}}

NextPanel ==
    \/ \E mode \in {"WAYPOINT"} : set_drawing_mode(mode)
    \/ \E height \in {100} : load_image(height)
    \/ load_yaml_file(SidecarFine)
    \/ /\ Places("left") => Len(waypoints) < MaxPlaced
       /\ mousePressEvent(PlacePoint, "left", FALSE)
    \/ mouseReleaseEvent(PlacePoint)
    \/ mouseDoubleClickEvent(PlacePoint)
    \/ \E number \in Numbers : remove_waypoint(number)
    \/ remove_all_waypoints
    \/ \E source_number \in Numbers, target_number \in Numbers :
           reorder_waypoints(source_number, target_number)
    \/ \E data \in PanelFiles : import_waypoints_from_yaml(data)

SpecPanel == InitListed /\ [][NextPanel]_vars

(***************************************************************************)
(* The other entry point.  src/main.py places waypoints as main_all.py     *)
(* does (press in WAYPOINT mode, release) and has no edit mode; it differs *)
(* in its Waypoint class and in remove_waypoint.  The package viewer of    *)
(* src/src/ui/panels/map_panel.py has no load_image, so it never holds a   *)
(* waypoint and is not modelled.                                           *)
(***************************************************************************)
NextMain ==
    \/ set_drawing_mode("WAYPOINT")
    \/ \E height \in {100} : load_image(height)
    \/ \E pos \in Points :
           /\ Places("left") => Len(waypoints) < MaxWaypoints
           /\ mousePressEvent(pos, "left", FALSE)
    \/ mouseReleaseEvent(PlacePoint)
    \/ \E number \in Numbers : main_remove_waypoint(number)

SpecMain == Init /\ [][NextMain]_vars

(***************************************************************************)
(* The list panel's drag.  Two waypoints are placed on a map, and their    *)
(* items in the list are pressed, dragged over one another, dropped or let *)
(* go, while the auto-scroll timer fires whenever it is running.           *)
(***************************************************************************)
NextDrag ==
    \/ drag = 0 /\ grab = 0 /\ set_drawing_mode("WAYPOINT")
    \/ \E height \in {100} : drag = 0 /\ grab = 0 /\ load_image(height)
    \/ /\ drag = 0 /\ grab = 0
       /\ Places("left") => Len(waypoints) < MaxPlaced
       /\ mousePressEvent(PlacePoint, "left", FALSE)
    \/ drag = 0 /\ grab = 0 /\ mouseReleaseEvent(PlacePoint)
    \/ \E number \in Numbers, button \in Buttons :
           WaypointListItem_mousePressEvent(number, button)
    \/ \E zone \in Zones : WaypointListItem_mouseMoveEvent(zone)
    \/ WaypointListItem_mouseReleaseEvent
    \/ \E number \in Numbers, zone \in Zones : dragMoveEvent(number, zone)
    \/ \E number \in Numbers : dropEvent(number)
    \/ drag_cancelled
    \/ \E scroll_speed \in ScrollSpeeds : auto_scroll(scroll_speed)

SpecDrag == InitListed /\ [][NextDrag]_vars

(***************************************************************************)
(* The compositor.  A map is loaded, and from then on the layer panel, the *)
(* grid button and the editing operations change what update_display       *)
(* composes at the pixel.                                                  *)
(***************************************************************************)
\* slider positions: translucent, opaque, and one past the end of the scale
Percents == {40, 100, 120}
Overlays == LayerNames \ {"pgm"}

NextRender ==
    \/ \E height \in {100} : load_image(height)
    \/ \E name \in LayerNames, visible \in BOOLEAN : set_visible(name, visible)
    \/ \E name \in LayerNames, percent \in Percents : set_opacity(name, percent)
    \/ \E name \in Overlays, covers \in BOOLEAN : set_content(name, covers)
    \/ toggle_grid

SpecRender == Init /\ [][NextRender]_vars

(***************************************************************************)
(* The round trip.  A pixel point, an origin and a resolution are chosen,  *)
(* the point is converted to metres and the metres back to pixels.         *)
(***************************************************************************)
TripCoordinates == {0, 3, 43, 81}
TripOrigins == {<<0, 0>>, <<20, 60>>}
HalfResolution == FDiv(FFromInt(1), FFromInt(2))
OddResolution == FDiv(FFromInt(3), FFromInt(10))
\* the resolutions 1/k of the round trip, and all of its resolutions
UnitFractions == {DefaultResolution, CoarseResolution, HalfResolution}
TripResolutions == UnitFractions \cup {OddResolution}

InitTransform ==
    /\ Constructed
    /\ listed = FALSE
    /\ \E px \in TripCoordinates, py \in TripCoordinates, o \in TripOrigins,
          r \in TripResolutions :
          trip = [NoTrip EXCEPT !.stage = "pixel", !.p = <<px, py>>, !.o = o, !.r = r]

NextTransform == pixel_to_metric \/ metric_to_pixel

SpecTransform == InitTransform /\ [][NextTransform]_vars

\* some waypoint of the collection has the number n
Present(n) == \E i \in 1..Len(waypoints) : WP(i).number = n

\* a press placed a waypoint in this step
Added == lastOp'.op = "mousePressEvent" /\ lastOp'.a = "added"

\* the object keeps its pixel position and its angle over the step
KeepsPose(id) ==
    /\ obj'[id].pixel_x = obj[id].pixel_x
    /\ obj'[id].pixel_y = obj[id].pixel_y
    /\ obj'[id].angle = obj[id].angle

\* C1: after any sequence of add, remove, remove all, reorder and import the
\* numbers of the waypoints in the collection are exactly 1..N with no gap and no
\* duplicate, increasing along the collection order.
NumbersDense == \A i \in 1..Len(waypoints) : WP(i).number = i

\* C2: for distinct numbers s and t both present, reorder_waypoints(s, t) moves
\* the waypoint numbered s to the index the waypoint numbered t had, so that its
\* new number is t, and every other waypoint keeps its relative order.
ReorderTakesTargetNumber ==
    [][\A s \in Numbers, t \in Numbers :
          (s # t /\ Present(s) /\ Present(t) /\ reorder_waypoints(s, t)) =>
              /\ waypoints'[IndexOf(obj, waypoints, t)] = waypoints[IndexOf(obj, waypoints, s)]
              /\ obj'[waypoints[IndexOf(obj, waypoints, s)]].number = t
              /\ Pop(waypoints', IndexOf(obj, waypoints, t))
                     = Pop(waypoints, IndexOf(obj, waypoints, s))]_vars

\* C3: remove_waypoint(k) with k present removes exactly the waypoint numbered k;
\* the remaining waypoints keep their pixel positions, their angles and their
\* relative order, and are renumbered 1..N-1 in that order.
RemoveTakesExactlyOne ==
    [][\A k \in Numbers :
          (Present(k) /\ remove_waypoint(k)) =>
              /\ waypoints' = Pop(waypoints, IndexOf(obj, waypoints, k))
              /\ \A j \in 1..Len(waypoints') :
                     obj'[waypoints'[j]].number = j /\ KeepsPose(waypoints'[j])]_vars

\* a waypoint was removed and at least two remain, not all with the same angle
RemovedFromSeveral ==
    /\ lastOp.op = "remove_waypoint"
    /\ lastOp.a = "removed"
    /\ Len(waypoints) >= 2
    /\ \E i \in 1..Len(waypoints) : WP(i).angle # WP(1).angle

\* C4: add_waypoint on a document with a map and N waypoints appends one waypoint
\* numbered N+1, in every reachable state, and leaves the number, the pixel
\* position and the angle of every existing waypoint unchanged.
AddTakesNextNumber ==
    [][Added =>
          /\ waypoints' = Append(waypoints, waypoints'[Len(waypoints')])
          /\ obj'[waypoints'[Len(waypoints')]].number = Len(waypoints) + 1
          /\ \A i \in 1..Len(waypoints) :
                 /\ obj'[waypoints[i]].number = obj[waypoints[i]].number
                 /\ KeepsPose(waypoints[i])]_vars

\* C5: remove_all_waypoints leaves the collection empty and the counter at 0, and
\* the waypoint added next is numbered 1, whatever operations preceded it.
RemoveAllResetsNumbering ==
    [][/\ (lastOp'.op = "remove_all_waypoints") => (waypoints' = << >> /\ counter' = 0)
       /\ (lastOp.op = "remove_all_waypoints" /\ Added) =>
              (Len(waypoints') = 1 /\ obj'[waypoints'[1]].number = 1)]_vars

\* a collection that held waypoints was emptied while a map is loaded and the
\* waypoint tool is on, so that a press adds the next waypoint
EmptiedForNextAdd ==
    /\ lastOp.op = "remove_all_waypoints"
    /\ lastOp.a = "emptied"
    /\ waypoints = << >>
    /\ counter = 0
    /\ pgm # 0
    /\ drawing_enabled
    /\ drawing_mode = "WAYPOINT"

\* C6: for every tool X and every starting mode other than X, set_drawing_mode(X)
\* followed by set_drawing_mode(X) leaves drawing_mode = NONE with drawing
\* disabled on the label and on the scroll area, and after every set_drawing_mode
\* call the label's drawing_enabled equals (drawing_mode # NONE).
SecondSelectionReturnsToIdle ==
    [][/\ (lastOp'.op = "set_drawing_mode") => (drawing_enabled' = (drawing_mode' # "NONE"))
       /\ \A X \in Tools :
              (/\ lastOp.op = "set_drawing_mode"
               /\ lastOp.a = X
               /\ lastOp.b # X
               /\ set_drawing_mode(X)) =>
                  (drawing_mode' = "NONE" /\ ~drawing_enabled' /\ ~drawing_mode_enabled')]_vars

\* a tool was selected while it was the current one, on a document with a
\* waypoint being placed
SelectedTwice ==
    /\ lastOp.op = "set_drawing_mode"
    /\ lastOp.a = lastOp.b
    /\ drawing_mode = "NONE"
    /\ ~drawing_enabled
    /\ is_setting_angle
    /\ waypoints # << >>

\* the place of each paint in the order base map, drawing layer, path layer,
\* waypoint markers, origin marker; the fill is below and the grid just above
\* the base map
PaintRank ==
    [src \in LayerNames \cup {"white", "grid"} |->
        CASE src = "white" -> 0
          [] src = "pgm" -> 2
          [] src = "grid" -> 3
          [] src = "drawing" -> 4
          [] src = "path" -> 6
          [] src = "waypoint" -> 8
          [] src = "origin" -> 10]

\* the layer is visible, opaque and covers the pixel
Showing(name) == layers[name].visible /\ layers[name].opacity = 100 /\ layers[name].ink

\* C7: whatever the visibility and opacity settings, the composed pixel holds its
\* paints in the order base map, drawing layer, path layer, waypoint markers,
\* origin marker, and of the visible opaque layers that cover the pixel the
\* topmost in that order is the one that shows: the origin marker wins over a
\* waypoint marker, which wins over the drawing layer, which wins over the map.
TopmostOpaqueLayerWins ==
    display # << >> =>
        /\ \A i \in 1..Len(display), j \in 1..Len(display) :
               i < j => PaintRank[display[i].src] < PaintRank[display[j].src]
        /\ \A low \in LayerNames, high \in LayerNames :
               (Showing(low) /\ Showing(high) /\ PaintRank[low] < PaintRank[high]) =>
                   /\ \A i \in 1..Len(display) : display[i].src # low
                   /\ PaintRank[display[1].src] >= PaintRank[high]

\* all five layers are visible, opaque and cover the pixel, under a grid line,
\* and the pixel is the origin marker's
AllFiveComposed ==
    /\ \A name \in LayerNames : Showing(name)
    /\ show_grid
    /\ display = <<Paint("origin", 100)>>

\* C8: in every reachable state in which an origin is set, every waypoint of the
\* collection has the metric coordinates ((pixel_x - origin_x) * resolution,
\* (origin_y - pixel_y) * resolution) of the document's current origin_point and
\* resolution, also after failed reloads of the sidecar.
MetricFollowsDocument ==
    origin_point # << >> =>
        \A i \in 1..Len(waypoints) :
            /\ WP(i).x = Times(WP(i).pixel_x - origin_point[1], resolution)
            /\ WP(i).y = Times(origin_point[2] - WP(i).pixel_y, resolution)

\* C9: a pixel point converted to metres and back with truncation toward zero
\* comes back within 1 unit of itself on each axis, and comes back exactly when
\* the resolution is 1/k for an integer k.
RoundTripReturnsPoint ==
    trip.stage = "back" =>
        /\ \A axis \in 1..2 : Abs(trip.back[axis] - trip.p[axis]) <= 1
        /\ trip.r \in UnitFractions => trip.back = trip.p

\* the sidecar gives two numbers for the origin and a resolution above zero
WellFormed(y) ==
    /\ y.has_origin
    /\ Len(y.origin) >= 2
    /\ FIsFinite(y.origin[1])
    /\ FIsFinite(y.origin[2])
    /\ FIsFinite(SidecarResolution(y))
    /\ FIsPositive(SidecarResolution(y))

\* (trunc(-ox / r), trunc(-oy / r)) of the well-formed sidecars
TruncatedOrigin ==
    [y \in {z \in Sidecars : WellFormed(z)} |->
        <<FTrunc(FDiv(FNeg(y.origin[1]), SidecarResolution(y))),
          FTrunc(FDiv(FNeg(y.origin[2]), SidecarResolution(y)))>>]

\* C10: loading a sidecar with origin (ox, oy) and resolution r on a document
\* whose map has height H sets origin_point to (trunc(-ox / r), H - trunc(-oy / r));
\* for origin [-1.0, -2.0], resolution 0.05 and height 100 that is (20, 60).
OriginFromSidecar ==
    [][/\ \A y \in Sidecars :
              (WellFormed(y) /\ pgm # 0 /\ load_yaml_file(y)) =>
                  origin_point' = <<TruncatedOrigin[y][1], pgm - TruncatedOrigin[y][2]>>
       /\ (pgm = 100 /\ load_yaml_file(SidecarFine)) => (origin_point' = <<20, 60>>)]_vars

\* the sidecar of the example was loaded on a map of height 100 that carries a
\* waypoint
ExampleOriginLoaded ==
    /\ lastOp.op = "load_yaml_file"
    /\ lastOp.a = "origin set"
    /\ pgm = 100
    /\ resolution = DefaultResolution
    /\ origin_point = <<20, 60>>
    /\ waypoints # << >>

\* the file's magic is not P5, its header does not parse, or its data is not
\* width * height bytes long
Malformed(f) ==
    \/ f.magic # "P5"
    \/ f \in {PgmOneDim, PgmJunkDim, PgmJunkMax}
    \/ f = PgmShort

\* C11: a load of a malformed PGM file leaves the base raster, the drawing
\* raster, the waypoint collection, the origin and the resolution as they were.
FailedPgmLoadKeepsDocument ==
    [][\A f \in PgmFiles :
          (Malformed(f) /\ load_pgm_file(f)) =>
              UNCHANGED <<pgm, layers, display, waypoints, obj, counter,
                          origin_point, resolution>>]_vars

\* a malformed file was opened over a map of another height that carries a
\* stroke, a waypoint and an origin
FailedPgmLoadOverDocument ==
    /\ lastOp.op = "load_pgm_file"
    /\ lastOp.a = "raised"
    /\ pgm = 100
    /\ layers["drawing"].ink
    /\ waypoints # << >>
    /\ origin_point # << >>

\* the sidecar cannot set an origin: no origin key, fewer than two elements, an
\* element that is no number, or a resolution that is no number above zero
Unsuccessful(y) ==
    \/ ~y.has_origin
    \/ Len(y.origin) < 2
    \/ \E i \in 1..2 : ~IsNumber(y.origin[i])
    \/ ~IsNumber(SidecarResolution(y))
    \/ ~FIsPositive(SidecarResolution(y))

\* C12: a load of a map YAML whose sidecar cannot set an origin leaves the base
\* map, the drawing layer, origin_point and resolution as they were.
FailedSidecarLoadKeepsDocument ==
    [][\A m \in MapYamls :
          (Unsuccessful(m.sidecar) /\ MainWindow_load_yaml_file(m)) =>
              UNCHANGED <<pgm, layers, origin_point, resolution>>]_vars

\* C13: the document's resolution is above zero in every reachable state.
ResolutionPositive == FIsPositive(resolution)

\* the entry has x, y and angle_degrees
Complete(e) == e.x.k # "missing" /\ e.y.k # "missing" /\ e.angle_degrees.k # "missing"

\* the waypoint is the i-th of the entries valid, converted with the document's
\* origin and resolution
ImportedAs(wp, valid, i) ==
    /\ wp.number = i
    /\ wp.pixel_x = PixelsX[resolution][valid[i].x][origin_point[1]]
    /\ wp.pixel_y = PixelsY[resolution][valid[i].y][origin_point[2]]
    /\ wp.angle = valid[i].angle_degrees

\* the collection after the step is the entries valid, in order, numbered 1..K
CollectionIs(valid) ==
    /\ Len(waypoints') = Len(valid)
    /\ \A i \in 1..Len(valid) : ImportedAs(obj'[waypoints'[i]], valid, i)

\* C14: with an origin loaded, an import of a list in which some entries lack x,
\* y or angle_degrees leaves the collection made of the other entries only, in
\* file order, numbered 1..K.
ImportSkipsIncomplete ==
    [][\A data \in ImportFiles :
          (/\ origin_point # << >>
           /\ data.has_waypoints
           /\ \E i \in 1..Len(data.entries) : ~Complete(data.entries[i])
           /\ import_waypoints_from_yaml(data)) =>
              CollectionIs(SelectSeq(data.entries, Complete))]_vars

\* C15: after load_image the drawing raster, the path raster and the origin
\* marker's raster hold nothing drawn for the map before.
NewMapResetsRasters ==
    [][\A height \in MapHeights :
          load_image(height) =>
              \A name \in {"drawing", "path", "origin"} : ~layers'[name].ink]_vars

\* the argument of set_opacity brought into [0, 1], in percent
Within(percent) == IF percent > 100 THEN 100 ELSE IF percent < 0 THEN 0 ELSE percent

\* C16: set_visible and set_opacity store their argument (the opacity clamped to
\* [0, 1]) and notify if and only if the stored value changes; a call that finds
\* its argument stored already, as a second call in a row with the same argument
\* does, changes nothing and does not notify.
SettersNotifyOnChange ==
    [][/\ \A name \in LayerNames, visible \in BOOLEAN :
              set_visible(name, visible) =>
                  /\ layers' = [layers EXCEPT ![name].visible = visible]
                  /\ lastOp'.a = "emitted" <=> layers'[name].visible # layers[name].visible
                  /\ lastOp'.a # "emitted" => UNCHANGED <<layers, display>>
       /\ \A name \in LayerNames, percent \in Percents :
              set_opacity(name, percent) =>
                  /\ layers' = [layers EXCEPT ![name].opacity = Within(percent)]
                  /\ lastOp'.a = "emitted" <=> layers'[name].opacity # layers[name].opacity
                  /\ lastOp'.a # "emitted" => UNCHANGED <<layers, display>>]_vars

\* on a loaded map a setter was called with the value stored already, a hidden
\* layer and a translucent one being there
SetterFoundValueStored ==
    /\ lastOp.op \in {"set_visible", "set_opacity"}
    /\ lastOp.a = "quiet"
    /\ display # << >>
    /\ \E name \in LayerNames : ~layers[name].visible
    /\ \E name \in LayerNames : layers[name].opacity = 40

\* the waypoint tool is on over a loaded map
PlacingOnMap == drawing_mode = "WAYPOINT" /\ drawing_enabled /\ pgm # 0

\* C17: with the waypoint tool on over a loaded map, every press of the primary
\* button appends exactly one waypoint with angle 0 in the same step, and the
\* release that follows it leaves is_setting_angle false and temp_waypoint and
\* click_pos cleared.
PressAddsReleaseClears ==
    [][/\ \A pos \in CornerPoints :
              (PlacingOnMap /\ mousePressEvent(pos, "left", FALSE)) =>
                  /\ Len(waypoints') = Len(waypoints) + 1
                  /\ \A i \in 1..Len(waypoints) : waypoints'[i] = waypoints[i]
                  /\ obj'[waypoints'[Len(waypoints')]].angle = AngleDeg(0)
                  /\ is_setting_angle'
       /\ \A pos \in CornerPoints :
              (PlacingOnMap /\ is_setting_angle /\ mouseReleaseEvent(pos)) =>
                  /\ ~is_setting_angle'
                  /\ temp_waypoint' = 0
                  /\ click_pos' = << >>]_vars

\* C18: while a waypoint is being edited, a pointer movement with no button
\* held, as the one that comes right after a release, leaves the pixel position
\* of every waypoint as it was.
HoverKeepsPositions ==
    [][\A pos \in Points :
          (/\ edit_mode
           /\ editing_waypoint # 0
           /\ lastOp.op = "mouseReleaseEvent"
           /\ mouseMoveEvent(pos)) =>
              \A i \in 1..Len(waypoints) :
                  /\ obj'[waypoints[i]].pixel_x = obj[waypoints[i]].pixel_x
                  /\ obj'[waypoints[i]].pixel_y = obj[waypoints[i]].pixel_y]_vars

\* C19: in every reachable state a drawing tool and the waypoint-edit mode are
\* not both active.
ModesExclusive ==
    ~(/\ drawing_mode # "NONE" \/ drawing_enabled
      /\ edit_mode /\ editing_waypoint # 0)

\* the point lies within 15 px of the waypoint's center
WithinRadius(wp, pos) ==
    (wp.pixel_x - pos[1]) * (wp.pixel_x - pos[1])
        + (wp.pixel_y - pos[2]) * (wp.pixel_y - pos[2]) <= 15 * 15

\* C20: with no tool selected and nothing being edited, a double-click enters
\* the edit mode if and only if it lies within a radius of 15 px of the center
\* of some waypoint of the collection, and the waypoint edited is then such a
\* waypoint; a double-click while editing leaves the edit mode.
DoubleClickEntersWithinRadius ==
    [][\A pos \in DiagonalPoints :
          /\ (drawing_mode = "NONE" /\ ~edit_mode /\ mouseDoubleClickEvent(pos)) =>
                 /\ edit_mode' <=> \E i \in 1..Len(waypoints) : WithinRadius(WP(i), pos)
                 /\ edit_mode' =>
                        /\ editing_waypoint' \in Range(waypoints)
                        /\ WithinRadius(obj[editing_waypoint'], pos)
          /\ (/\ drawing_mode = "NONE" /\ edit_mode /\ editing_waypoint # 0
              /\ mouseDoubleClickEvent(pos)) =>
                 ~edit_mode' /\ editing_waypoint' = 0]_vars

\* every waypoint of the collection is the same object with the same fields
\* after the step, at the same place of the list
CollectionUnchanged ==
    /\ waypoints' = waypoints
    /\ \A i \in 1..Len(waypoints) : obj'[waypoints[i]] = obj[waypoints[i]]

\* C21: an import of a waypoint file made while the document has no origin
\* leaves the collection as it was: the same members in the same order with
\* the same numbers.
ImportWithoutOriginKeepsCollection ==
    [][\A data \in ImportFiles :
          (origin_point = << >> /\ import_waypoints_from_yaml(data)) =>
              CollectionUnchanged]_vars

\* the waypoint tool is on and no map has been loaded
PlacingOffMap == drawing_mode = "WAYPOINT" /\ drawing_enabled /\ pgm = 0

\* C22: with the waypoint tool on and no map loaded, a press, a move and a
\* release leave the collection and the numbering counter as they were, and
\* the release leaves no placement under way: is_setting_angle is false and
\* temp_waypoint and click_pos are cleared.
PlacingOffMapIsNoOp ==
    [][\A pos \in CornerPoints :
          /\ (/\ PlacingOffMap
              /\ \/ mousePressEvent(pos, "left", FALSE)
                 \/ mouseMoveEvent(pos)
                 \/ mouseReleaseEvent(pos)) =>
                 /\ CollectionUnchanged
                 /\ counter' = counter
          /\ (PlacingOffMap /\ mouseReleaseEvent(pos)) =>
                 /\ ~is_setting_angle'
                 /\ temp_waypoint' = 0
                 /\ click_pos' = << >>]_vars

DragEnds == drag # 0 /\ drag' = 0

\* C24: when the drag of a list item ends, by the drop or by the release of the
\* button, no auto-scroll timer is running, and there is never more than one.
TimerStopsWithDrag ==
    [][/\ DragEnds => scroll_timer' = 0
       /\ scroll_timer' <= 1]_vars

\* C25: in src/main.py too, remove_waypoint(k) on a collection of at least two
\* waypoints completes and leaves the waypoints that remain numbered 1..N,
\* with the counter at N for the next add.
RemoveRenumbersElsewhere ==
    [][\A number \in Numbers :
          (Len(waypoints) >= 2 /\ main_remove_waypoint(number)) =>
              /\ lastOp'.a # "raised"
              /\ \A i \in 1..Len(waypoints') : obj'[waypoints'[i]].number = i
              /\ counter' = Len(waypoints')]_vars

\* C26: whenever the edit mode is active, the waypoint being edited is a
\* member of the waypoint collection.
EditedIsMember == edit_mode => editing_waypoint \in Range(waypoints)

\* C27: the list panel holds exactly one entry per waypoint of the collection,
\* keyed by the waypoint's current number and referring to that very object:
\* no entry for anything else, and no waypoint without its entry.
PanelMatchesCollection ==
    \A n \in Numbers :
        /\ waypoint_widgets[n] # 0 =>
               /\ waypoint_widgets[n] \in Range(waypoints)
               /\ obj[waypoint_widgets[n]].number = n
        /\ \A i \in 1..Len(waypoints) :
               obj[waypoints[i]].number = n => waypoint_widgets[n] = waypoints[i]

\* C28: whenever a map of height H and an origin (ox, oy, r) are both loaded,
\* origin_point is (trunc(-ox / r), H - trunc(-oy / r)) for a sidecar that can
\* set an origin, in whichever order the two were loaded and also after the
\* map was replaced by one of another height.
OriginFollowsMap ==
    (pgm # 0 /\ origin_point # << >>) =>
        \E y \in Sidecars :
            /\ SidecarPixels[y] # << >>
            /\ origin_point = <<SidecarPixels[y][1], pgm - SidecarPixels[y][2]>>

\* C29: the angle placement ends with its drag: after every release
\* is_setting_angle is false and temp_waypoint is unset, also when the tool was
\* changed between the press and the release; and a pointer movement that
\* directly follows the selection of the waypoint tool changes no waypoint.
PlacementEndsWithRelease ==
    [][/\ (\E pos \in Points : mouseReleaseEvent(pos)) =>
              (~is_setting_angle' /\ temp_waypoint' = 0)
       /\ (/\ lastOp.op = "set_drawing_mode"
           /\ drawing_mode = "WAYPOINT"
           /\ \E pos \in Points : mouseMoveEvent(pos)) => obj' = obj]_vars

\* C30: the path raster is empty when the Generate Path button is unchecked,
\* and when it is checked it holds exactly the segments that join consecutive
\* waypoints of the collection, in the collection's order.
PathMatchesCollection ==
    path = IF path_checked /\ Len(waypoints) >= 2
           THEN Segments(obj, waypoints)
           ELSE << >>

====
